---- MODULE Spec2Model ----
(***************************************************************************)
(* A model of github.com/git-pkgs/spdx: the heuristic license normalizer   *)
(* (spdx.go, normalize.go), the expression pre-processor (parse_lax.go)    *)
(* and the lexer, recursive-descent parser and renderer of SPDX license    *)
(* expressions.  Go strings are TLA+ strings; a byte s[i] is               *)
(* SubSeq(s, i+1, i+1).                                                    *)
(***************************************************************************)
EXTENDS Integers, Sequences, FiniteSets, TLC

(***************************************************************************)
(* Bounds of the model.                                                    *)
(***************************************************************************)
MaxOperands == 3

\* the most leaves of a tree a caller builds
MaxLeaves == 3

\* the most words of a phrase handed to the normalizer
MaxWords == 2

(***************************************************************************)
(* The Go string functions the package calls (ASCII inputs).               *)
(***************************************************************************)
LowerAlpha == "abcdefghijklmnopqrstuvwxyz"

UpperAlpha == "ABCDEFGHIJKLMNOPQRSTUVWXYZ"

Digits == {"0", "1", "2", "3", "4", "5", "6", "7", "8", "9"}

Ch(s, i) == IF i >= 1 /\ i <= Len(s) THEN SubSeq(s, i, i) ELSE ""

From(s, i) == SubSeq(s, i, Len(s))

upperTable ==
  [c \in {SubSeq(LowerAlpha, i, i) : i \in 1..26} |->
     LET i == CHOOSE j \in 1..26 : SubSeq(LowerAlpha, j, j) = c
     IN  SubSeq(UpperAlpha, i, i)]

lowerTable ==
  [c \in {SubSeq(UpperAlpha, i, i) : i \in 1..26} |->
     LET i == CHOOSE j \in 1..26 : SubSeq(UpperAlpha, j, j) = c
     IN  SubSeq(LowerAlpha, i, i)]

upperCh(c) == IF c \in DOMAIN upperTable THEN upperTable[c] ELSE c

lowerCh(c) == IF c \in DOMAIN lowerTable THEN lowerTable[c] ELSE c

\* strings.ToUpper, by halves; the argument is evaluated once
RECURSIVE ToUpper(_)
upperHalves(s) ==
  IF Len(s) <= 1 THEN upperCh(s)
  ELSE ToUpper(SubSeq(s, 1, Len(s) \div 2)) \o ToUpper(SubSeq(s, Len(s) \div 2 + 1, Len(s)))

ToUpper(s) == CHOOSE u \in {upperHalves(v) : v \in {s}} : TRUE

\* strings.ToLower, by halves; the argument is evaluated once
RECURSIVE ToLower(_)
lowerHalves(s) ==
  IF Len(s) <= 1 THEN lowerCh(s)
  ELSE ToLower(SubSeq(s, 1, Len(s) \div 2)) \o ToLower(SubSeq(s, Len(s) \div 2 + 1, Len(s)))

ToLower(s) == CHOOSE l \in {lowerHalves(v) : v \in {s}} : TRUE

IsSpace(c) == c \in {" ", "\t", "\n", "\r", "\f"}

IsDigit(c) == c \in Digits

IsWordCh(c) == c \in DOMAIN upperTable \/ c \in DOMAIN lowerTable \/ c \in Digits \/ c = "_"

HasPrefix(s, p) == Len(s) >= Len(p) /\ SubSeq(s, 1, Len(p)) = p

HasSuffix(s, p) == Len(s) >= Len(p) /\ SubSeq(s, Len(s) - Len(p) + 1, Len(s)) = p

TrimSuffix(s, p) == IF HasSuffix(s, p) THEN SubSeq(s, 1, Len(s) - Len(p)) ELSE s

SetMin(S) == CHOOSE x \in S : \A y \in S : x <= y

pickIndex(hits) == IF hits = {} THEN 0 ELSE SetMin(hits)

\* strings.Index, 1-based; 0 when sub does not occur
Index(s, sub) ==
  pickIndex({i \in 1..(Len(s) - Len(sub) + 1) : SubSeq(s, i, i + Len(sub) - 1) = sub})

Contains(s, sub) == \E i \in 1..(Len(s) - Len(sub) + 1) : SubSeq(s, i, i + Len(sub) - 1) = sub

\* index of the first non-space byte at or after i
SkipSpaces(s, i) ==
  IF i > Len(s) THEN i
  ELSE SetMin({k \in i..(Len(s) + 1) : k > Len(s) \/ ~IsSpace(Ch(s, k))})

TrimLeft(s) == From(s, SkipSpaces(s, 1))

TrimRight(s) ==
  SubSeq(s, 1, SetMin({k \in 0..Len(s) : \A b \in (k + 1)..Len(s) : IsSpace(Ch(s, b))}))

TrimSpace(s) == TrimRight(TrimLeft(s))

\* strings.ReplaceAll with a non-empty old: leftmost, non-overlapping;
\* replaceFrom replaces the occurrence at index i and all later ones
RECURSIVE ReplaceAll(_, _, _)
replaceFrom(s, old, new, i) ==
  IF i = 0 THEN s
  ELSE SubSeq(s, 1, i - 1) \o new \o ReplaceAll(From(s, i + Len(old)), old, new)

ReplaceAll(s, old, new) == replaceFrom(s, old, new, Index(s, old))

\* strings.Replace(s, old, new, 1)
replaceOnce(s, old, new, i) ==
  IF i = 0 THEN s
  ELSE SubSeq(s, 1, i - 1) \o new \o From(s, i + Len(old))

ReplaceFirst(s, old, new) == replaceOnce(s, old, new, Index(s, old))

\* regexp `(?i)` + QuoteMeta(old), ReplaceAllString
RECURSIVE ReplaceAllFold(_, _, _)
replaceFoldFrom(s, old, new, i) ==
  IF i = 0 THEN s
  ELSE SubSeq(s, 1, i - 1) \o new \o ReplaceAllFold(From(s, i + Len(old)), old, new)

ReplaceAllFold(s, old, new) == replaceFoldFrom(s, old, new, Index(ToUpper(s), ToUpper(old)))

RECURSIVE Join(_, _)
Join(words, sep) ==
  IF Len(words) = 0 THEN ""
  ELSE IF Len(words) = 1 THEN words[1]
  ELSE words[1] \o sep \o Join(Tail(words), sep)


Sub(s, a, b) == IF a > Len(s) \/ b < a THEN "" ELSE SubSeq(s, a, IF b > Len(s) THEN Len(s) ELSE b)

\* the printable ASCII bytes in increasing order (the backquote left out)
Ascii == " !\"#$%&'()*+,-./0123456789:;<=>?@ABCDEFGHIJKLMNOPQRSTUVWXYZ[\\]^_abcdefghijklmnopqrstuvwxyz{|}~"

\* Go's < on strings: bytewise lexicographic order
RECURSIVE StrLess(_, _)
StrLess(a, b) ==
  IF b = "" THEN FALSE
  ELSE IF a = "" THEN TRUE
  ELSE IF Ch(a, 1) = Ch(b, 1) THEN StrLess(From(a, 2), From(b, 2))
  ELSE Index(Ascii, Ch(a, 1)) < Index(Ascii, Ch(b, 1))

Range(f) == {f[i] : i \in DOMAIN f}

(***************************************************************************)
(* The identifier vocabulary (normalize.go, initMaps).  The three lists    *)
(* come from the spdxlicenses package; the model holds a sample of them.   *)
(***************************************************************************)
licenses ==
  << "MIT", "MITNFA", "Apache-2.0", "ISC", "BSD-2-Clause", "BSD-3-Clause",
     "BSD-3-Clause-Clear", "BSD-4-Clause",
     "GPL-1.0-only", "GPL-1.0-or-later", "GPL-2.0-only", "GPL-2.0-or-later",
     "GPL-3.0-only", "GPL-3.0-or-later",
     "LGPL-2.0-only", "LGPL-2.0-or-later", "LGPL-2.1-only", "LGPL-2.1-or-later",
     "LGPL-3.0-only", "LGPL-3.0-or-later",
     "AGPL-1.0-only", "AGPL-1.0-or-later", "AGPL-3.0-only", "AGPL-3.0-or-later",
     "MPL-2.0", "EPL-1.0", "EPL-2.0", "Unlicense", "WTFPL", "Zlib",
     "CC0-1.0", "CC-BY-3.0", "CC-BY-4.0", "CC-BY-NC-4.0",
     "Artistic-1.0", "Artistic-2.0", "Artistic-1.0-Perl", "Beerware", "BSL-1.0",
     "CDDL-1.1", "UPL-1.0", "X11", "OFL-1.1", "PHP-3.01", "PSF-2.0",
     "Python-2.0", "ZPL-2.1", "EUPL-1.2", "PostgreSQL" >>

deprecated ==
  << "GPL-1.0", "GPL-1.0+", "GPL-2.0", "GPL-2.0+", "GPL-3.0", "GPL-3.0+",
     "LGPL-2.0", "LGPL-2.0+", "LGPL-2.1", "LGPL-2.1+", "LGPL-3.0", "LGPL-3.0+",
     "AGPL-1.0", "AGPL-3.0",
     "BSD-2-Clause-FreeBSD", "BSD-2-Clause-NetBSD", "wxWindows" >>

exceptions ==
  << "Classpath-exception-2.0", "LLVM-exception", "GCC-exception-3.1" >>

SetMax(S) == CHOOSE x \in S : \A y \in S : y <= x

\* for _, id := range ids { m[strings.ToLower(id)] = id }: the last one wins
lastWins(ids) ==
  [k \in {ToLower(ids[i]) : i \in DOMAIN ids} |->
     ids[SetMax({i \in DOMAIN ids : ToLower(ids[i]) = k})]]

\* if _, exists := m[lower]; !exists { m[lower] = id }: the first one wins
firstWins(ids) ==
  [k \in {ToLower(ids[i]) : i \in DOMAIN ids} |->
     ids[SetMin({i \in DOMAIN ids : ToLower(ids[i]) = k})]]

deprecatedMap == lastWins(deprecated)

\* the entries of first, and those of second whose key first does not hold
mergeMaps(first, second) ==
  [k \in (DOMAIN first) \cup (DOMAIN second) |->
     IF k \in DOMAIN first THEN first[k] ELSE second[k]]

licenseMap == mergeMaps(lastWins(licenses), firstWins(deprecated))

exceptionMap == lastWins(exceptions)

\* id, ok := m[key]: the empty string when the key is absent
lookup(m, key) == IF key \in DOMAIN m THEN m[key] ELSE ""

\* lookupLicense returning the spelling it was given instead of the canonical one
lookupLicenseVerbatim(s) == IF lookup(licenseMap, ToLower(s)) # "" THEN s ELSE ""

lookupLicense(s) == lookup(licenseMap, ToLower(s))

lookupException(s) == lookup(exceptionMap, ToLower(s))

ValidLicense(license) == lookupLicense(license) # ""

(***************************************************************************)
(* upgradeGPL (normalize.go)                                               *)
(***************************************************************************)
upgradeGPL(license) ==
  IF license \in {"GPL-1.0", "LGPL-1.0", "AGPL-1.0",
                  "GPL-2.0", "LGPL-2.0", "AGPL-2.0",
                  "LGPL-2.1"}
  THEN license \o "-only"
  ELSE IF license \in {"GPL-1.0+", "GPL-2.0+", "GPL-3.0+",
                       "LGPL-2.0+", "LGPL-2.1+", "LGPL-3.0+",
                       "AGPL-1.0+", "AGPL-3.0+"}
  THEN TrimSuffix(license, "+") \o "-or-later"
  ELSE IF license \in {"GPL-3.0", "LGPL-3.0", "AGPL-3.0"}
  THEN license \o "-or-later"
  ELSE license

(***************************************************************************)
(* The rule tables and their ordering by init() (normalize.go)             *)
(***************************************************************************)
transpositionData ==
  <<
    [from |-> "The Apache Software License, Version 2.0", to |-> "Apache-2.0"],
    [from |-> "The Apache License, Version 2.0", to |-> "Apache-2.0"],
    [from |-> "Apache Software License, Version 2.0", to |-> "Apache-2.0"],
    [from |-> "Apache License, Version 2.0", to |-> "Apache-2.0"],
    [from |-> "The Apache Software License", to |-> "Apache"],
    [from |-> "Apache Software License", to |-> "Apache"],
    [from |-> "The MIT License", to |-> "MIT"],
    [from |-> "GNU Lesser General Public License v3.0", to |-> "LGPL-3.0"],
    [from |-> "GNU Lesser General Public License v3", to |-> "LGPL-3.0"],
    [from |-> "GNU Lesser General Public License v2.1", to |-> "LGPL-2.1"],
    [from |-> "GNU Lesser General Public License v2.0", to |-> "LGPL-2.0"],
    [from |-> "GNU Lesser General Public License v2", to |-> "LGPL-2.0"],
    [from |-> "GNU LESSER GENERAL PUBLIC LICENSE", to |-> "LGPL-2.1"],
    [from |-> "GNU Lesser General Public License", to |-> "LGPL-2.1"],
    [from |-> "Lesser General Public License", to |-> "LGPL-2.1"],
    [from |-> "LESSER GENERAL PUBLIC LICENSE", to |-> "LGPL-2.1"],
    [from |-> "GNU AFFERO GENERAL PUBLIC LICENSE", to |-> "AGPL"],
    [from |-> "AFFERO GENERAL PUBLIC LICENSE", to |-> "AGPL"],
    [from |-> "GNU GENERAL PUBLIC LICENSE", to |-> "GPL"],
    [from |-> "GNU General Public License", to |-> "GPL"],
    [from |-> "Gnu public license", to |-> "GPL"],
    [from |-> "GNU Public License", to |-> "GPL"],
    [from |-> "Mozilla Public License", to |-> "MPL"],
    [from |-> "Universal Permissive License", to |-> "UPL"],
    [from |-> "Eclipse Public License", to |-> "EPL"],
    [from |-> " or later", to |-> "+"],
    [from |-> "-or-later", to |-> "+"],
    [from |-> " International", to |-> ""],
    [from |-> "GNU LGPL", to |-> "LGPL"],
    [from |-> "GNU GPL", to |-> "GPL"],
    [from |-> "GNU/GPL", to |-> "GPL"],
    [from |-> "GNU GLP", to |-> "GPL"],
    [from |-> "GNU/GPLv", to |-> "GPLv"],
    [from |-> " License", to |-> ""],
    [from |-> "-License", to |-> ""],
    [from |-> "WTFGPL", to |-> "WTFPL"],
    [from |-> "APGL", to |-> "AGPL"],
    [from |-> "GLP", to |-> "GPL"],
    [from |-> "APLv", to |-> "Apache-"],
    [from |-> "APL", to |-> "Apache"],
    [from |-> "ISD", to |-> "ISC"],
    [from |-> "IST", to |-> "ISC"],
    [from |-> "MTI", to |-> "MIT"],
    [from |-> "GNU", to |-> "GPL"],
    [from |-> "GUN", to |-> "GPL"],
    [from |-> "Gpl", to |-> "GPL"],
    [from |-> "WTH", to |-> "WTF"],
    [from |-> "Claude", to |-> "Clause"],
    [from |-> "+", to |-> ""]
  >>

lastResortData ==
  <<
    [substring |-> "MIT +NO-FALSE-ATTRIBS", license |-> "MITNFA"],
    [substring |-> "PUBLIC DOMAIN", license |-> "Unlicense"],
    [substring |-> "PUBLIC-DOMAIN", license |-> "Unlicense"],
    [substring |-> "PUBLICDOMAIN", license |-> "Unlicense"],
    [substring |-> "ECLIPSE PUBLIC LICENSE 2", license |-> "EPL-2.0"],
    [substring |-> "ECLIPSE PUBLIC LICENSE, VERSION 2", license |-> "EPL-2.0"],
    [substring |-> "ECLIPSE PUBLIC LICENSE V2", license |-> "EPL-2.0"],
    [substring |-> "EPL-2", license |-> "EPL-2.0"],
    [substring |-> "EPL 2", license |-> "EPL-2.0"],
    [substring |-> "EPL2", license |-> "EPL-2.0"],
    [substring |-> "ECLIPSE PUBLIC LICENSE 1", license |-> "EPL-1.0"],
    [substring |-> "EPL-1", license |-> "EPL-1.0"],
    [substring |-> "EPL 1", license |-> "EPL-1.0"],
    [substring |-> "EPL1", license |-> "EPL-1.0"],
    [substring |-> "ASL-2", license |-> "Apache-2.0"],
    [substring |-> "ASL 2", license |-> "Apache-2.0"],
    [substring |-> "ASL2", license |-> "Apache-2.0"],
    [substring |-> "ALV2", license |-> "Apache-2.0"],
    [substring |-> "AL2", license |-> "Apache-2.0"],
    [substring |-> "ASL", license |-> "Apache-2.0"],
    [substring |-> "2 CLAUSE", license |-> "BSD-2-Clause"],
    [substring |-> "2-CLAUSE", license |-> "BSD-2-Clause"],
    [substring |-> "3 CLAUSE", license |-> "BSD-3-Clause"],
    [substring |-> "3-CLAUSE", license |-> "BSD-3-Clause"],
    [substring |-> "AFFERO", license |-> "AGPL-3.0-or-later"],
    [substring |-> "AGPL", license |-> "AGPL-3.0-or-later"],
    [substring |-> "LGPL2.1+", license |-> "LGPL-2.1-or-later"],
    [substring |-> "LGPL2.1", license |-> "LGPL-2.1-only"],
    [substring |-> "LGPLV2.1", license |-> "LGPL-2.1-only"],
    [substring |-> "LGPLV1", license |-> "LGPL-1.0-only"],
    [substring |-> "LGPL-1", license |-> "LGPL-1.0-only"],
    [substring |-> "LGPLV2", license |-> "LGPL-2.0-only"],
    [substring |-> "LGPL-2", license |-> "LGPL-2.0-only"],
    [substring |-> "LGPL", license |-> "LGPL-3.0-or-later"],
    [substring |-> "GPLV1", license |-> "GPL-1.0-only"],
    [substring |-> "GPL-1", license |-> "GPL-1.0-only"],
    [substring |-> "GPLV2", license |-> "GPL-2.0-only"],
    [substring |-> "GPL-2", license |-> "GPL-2.0-only"],
    [substring |-> "GPL", license |-> "GPL-3.0-or-later"],
    [substring |-> "GNU", license |-> "GPL-3.0-or-later"],
    [substring |-> "APACHE", license |-> "Apache-2.0"],
    [substring |-> "ARTISTIC_2", license |-> "Artistic-2.0"],
    [substring |-> "ARTISTIC_1", license |-> "Artistic-1.0"],
    [substring |-> "ARTISTIC-2", license |-> "Artistic-2.0"],
    [substring |-> "ARTISTIC-1", license |-> "Artistic-1.0"],
    [substring |-> "ARTISTIC 2", license |-> "Artistic-2.0"],
    [substring |-> "ARTISTIC 1", license |-> "Artistic-1.0"],
    [substring |-> "ARTISTIC", license |-> "Artistic-2.0"],
    [substring |-> "BEER", license |-> "Beerware"],
    [substring |-> "BOOST", license |-> "BSL-1.0"],
    [substring |-> "BSD", license |-> "BSD-2-Clause"],
    [substring |-> "CC0", license |-> "CC0-1.0"],
    [substring |-> "CDDL", license |-> "CDDL-1.1"],
    [substring |-> "ECLIPSE", license |-> "EPL-1.0"],
    [substring |-> "EPL", license |-> "EPL-1.0"],
    [substring |-> "FUCK", license |-> "WTFPL"],
    [substring |-> "MIT", license |-> "MIT"],
    [substring |-> "MPL", license |-> "MPL-2.0"],
    [substring |-> "UNLI", license |-> "Unlicense"],
    [substring |-> "UPL", license |-> "UPL-1.0"],
    [substring |-> "WTF", license |-> "WTFPL"],
    [substring |-> "X11", license |-> "X11"],
    [substring |-> "ZLIB", license |-> "Zlib"],
    [substring |-> "ISCL", license |-> "ISC"],
    [substring |-> "ICS", license |-> "ISC"],
    [substring |-> "ISC", license |-> "ISC"],
    [substring |-> "OPEN FONT", license |-> "OFL-1.1"],
    [substring |-> "OFL", license |-> "OFL-1.1"],
    [substring |-> "PHP-3", license |-> "PHP-3.01"],
    [substring |-> "PHP", license |-> "PHP-3.01"],
    [substring |-> "PYTHON SOFTWARE FOUNDATION", license |-> "PSF-2.0"],
    [substring |-> "PSF-2", license |-> "PSF-2.0"],
    [substring |-> "PSF", license |-> "PSF-2.0"],
    [substring |-> "PYTHON", license |-> "Python-2.0"],
    [substring |-> "PERL_5", license |-> "Artistic-1.0-Perl"],
    [substring |-> "PERL5", license |-> "Artistic-1.0-Perl"],
    [substring |-> "PERL 5", license |-> "Artistic-1.0-Perl"],
    [substring |-> "ZPL", license |-> "ZPL-2.1"],
    [substring |-> "EUROPEAN UNION PUBLIC", license |-> "EUPL-1.2"],
    [substring |-> "EUPL", license |-> "EUPL-1.2"],
    [substring |-> "WXWINDOWS", license |-> "wxWindows"],
    [substring |-> "WXWIDGETS", license |-> "wxWindows"]
  >>

\* the less function of both sort.Slice calls: longer first, then ascending text
sortLess(a, b) == Len(a) > Len(b) \/ (Len(a) = Len(b) /\ StrLess(a, b))

\* the number of keys that sort before keys[j]
rankOf(keys) ==
  [j \in DOMAIN keys |-> Cardinality({i \in DOMAIN keys : sortLess(keys[i], keys[j])})]

\* the table in the order its ranks give
sortedBy(data, rank) ==
  [r \in DOMAIN data |-> data[CHOOSE j \in DOMAIN data : rank[j] = r - 1]]

sortByFrom(data) == sortedBy(data, rankOf([j \in DOMAIN data |-> data[j].from]))

sortBySubstring(data) == sortedBy(data, rankOf([j \in DOMAIN data |-> data[j].substring]))

transpositions == sortByFrom(transpositionData)

lastResorts == sortBySubstring(lastResortData)

(***************************************************************************)
(* The pre-compiled regular expressions (normalize.go), each as the        *)
(* leftmost-first matcher that Go's regexp package runs.  A replacement    *)
(* loop is handed the set of indices at which a match starts.              *)
(***************************************************************************)
\* (-|\s)
isSep(c) == c = "-" \/ IsSpace(c)

\* reWhitespace `\s+`, ReplaceAllString(s, repl)
RECURSIVE reWhitespaceReplace(_, _)
reWhitespaceFrom(s, repl, starts) ==
  IF starts = {} THEN s
  ELSE SubSeq(s, 1, SetMin(starts) - 1) \o repl
         \o reWhitespaceReplace(From(s, SkipSpaces(s, SetMin(starts))), repl)

reWhitespaceReplace(s, repl) ==
  reWhitespaceFrom(s, repl, {i \in 1..Len(s) : IsSpace(Ch(s, i))})

\* j if s[j] is a digit, else 0
digitAt(s, j) == IF IsDigit(Ch(s, j)) THEN j ELSE 0

\* end of the match of reDigit `,?\s*(\d)` that starts at s[i]; 0 if none
reDigitMatchEnd(s, i) == digitAt(s, SkipSpaces(s, IF Ch(s, i) = "," THEN i + 1 ELSE i))

\* reDigit, ReplaceAllString(s, "-$1")
RECURSIVE reDigitReplace(_)
reDigitSplice(s, i, e) ==
  SubSeq(s, 1, i - 1) \o "-" \o Ch(s, e) \o reDigitReplace(From(s, e + 1))

reDigitFrom(s, starts) ==
  IF starts = {} THEN s
  ELSE reDigitSplice(s, SetMin(starts), reDigitMatchEnd(s, SetMin(starts)))

reDigitReplace(s) == reDigitFrom(s, {i \in 1..Len(s) : reDigitMatchEnd(s, i) > 0})

\* start of the run of white space that ends just before index k
BackSpaces(s, k) == SetMin({a \in 1..k : \A b \in a..(k - 1) : IsSpace(Ch(s, b))} \cup {k})

\* s with its bytes from index i on replaced by "-", the last byte and tail
spliceEnd(s, i, tail) == SubSeq(s, 1, i - 1) \o "-" \o Ch(s, Len(s)) \o tail

\* k - 1 if s[k-1] is a comma, else k
beforeComma(s, k) == IF k > 1 /\ Ch(s, k - 1) = "," THEN k - 1 ELSE k

\* reDigitEnd `,?\s*(\d)$`, ReplaceAllString(s, "-$1.0")
reDigitEndReplace(s) ==
  IF Len(s) = 0 \/ ~IsDigit(Ch(s, Len(s))) THEN s
  ELSE spliceEnd(s, beforeComma(s, BackSpaces(s, Len(s))), ".0")

\* end of the match of `(V\.?|Version)\s*(\d)` that starts at s[j]; 0 if none
versionAt(s, j) ==
  IF /\ upperCh(Ch(s, j)) = "V"
     /\ IsDigit(Ch(s, SkipSpaces(s, IF Ch(s, j + 1) = "." THEN j + 2 ELSE j + 1)))
  THEN SkipSpaces(s, IF Ch(s, j + 1) = "." THEN j + 2 ELSE j + 1)
  ELSE IF ToUpper(Sub(s, j, j + 6)) = "VERSION" /\ IsDigit(Ch(s, SkipSpaces(s, j + 7)))
  THEN SkipSpaces(s, j + 7)
  ELSE 0

\* end of the match of `(?i),?\s*(V\.?|Version)\s*(\d)` that starts at s[i]; 0 if none
reVersionMatchEnd(s, i) == versionAt(s, SkipSpaces(s, IF Ch(s, i) = "," THEN i + 1 ELSE i))

\* reVersion, ReplaceAllString(s, "-$2")
RECURSIVE reVersionReplace(_)
reVersionSplice(s, i, e) ==
  SubSeq(s, 1, i - 1) \o "-" \o Ch(s, e) \o reVersionReplace(From(s, e + 1))

reVersionFrom(s, starts) ==
  IF starts = {} THEN s
  ELSE reVersionSplice(s, SetMin(starts), reVersionMatchEnd(s, SetMin(starts)))

reVersionReplace(s) == reVersionFrom(s, {i \in 1..Len(s) : reVersionMatchEnd(s, i) > 0})

reVersionEndFrom(s, starts) == IF starts = {} THEN s ELSE spliceEnd(s, SetMin(starts), ".0")

\* reVersionEnd `(?i),?\s*(V\.?|Version)\s*(\d)$`, ReplaceAllString(s, "-$2.0")
reVersionEndReplace(s) ==
  reVersionEndFrom(s, {i \in 1..Len(s) : reVersionMatchEnd(s, i) = Len(s)})

\* reTrailingDigit `(\d)$`, ReplaceAllString(s, "-$1.0")
reTrailingDigitReplace(s) ==
  IF Len(s) = 0 \/ ~IsDigit(Ch(s, Len(s))) THEN s ELSE spliceEnd(s, Len(s), ".0")

\* reBSDNum `(?i)(-|\s)?(\d)$`, ReplaceAllString(s, "-$2-Clause")
reBSDNumReplace(s) ==
  IF Len(s) = 0 \/ ~IsDigit(Ch(s, Len(s))) THEN s
  ELSE spliceEnd(s, IF Len(s) > 1 /\ isSep(Ch(s, Len(s) - 1)) THEN Len(s) - 1 ELSE Len(s),
                 "-Clause")

\* reBSDClause `(?i)(-|\s)clause(-|\s)(\d)`, ReplaceAllString(s, "-$3-Clause")
RECURSIVE reBSDClauseReplace(_)
reBSDClauseFrom(s, starts) ==
  IF starts = {} THEN s
  ELSE SubSeq(s, 1, SetMin(starts) - 1) \o "-" \o Ch(s, SetMin(starts) + 8) \o "-Clause"
         \o reBSDClauseReplace(From(s, SetMin(starts) + 9))

reBSDClauseReplace(s) ==
  reBSDClauseFrom(s, {i \in 1..Len(s) : /\ isSep(Ch(s, i))
                                        /\ ToUpper(Sub(s, i + 1, i + 6)) = "CLAUSE"
                                        /\ isSep(Ch(s, i + 7))
                                        /\ IsDigit(Ch(s, i + 8))})

\* the expressions `(?i)\b(w1|w2|..)(-|\s)?BSD((-|\s)lic)?`: words are the
\* alternatives w1.., lics the spellings of lic.  bsdLic is the end of the
\* match whose "BSD" ends just before s[k]
bsdLic(s, k, lics) ==
  IF isSep(Ch(s, k)) /\ ToUpper(Sub(s, k + 1, k + 7)) \in lics THEN k + 7 ELSE k - 1

\* the end of the match whose "BSD" has to start at s[b]; 0 if none
bsdAt(s, b, lics) == IF ToUpper(Sub(s, b, b + 2)) # "BSD" THEN 0 ELSE bsdLic(s, b + 3, lics)

\* the end of the match whose first word ends just before one of ends; 0 if none
bsdAfterWord(s, ends, lics) ==
  IF ends = {} THEN 0
  ELSE bsdAt(s, IF isSep(Ch(s, SetMin(ends))) THEN SetMin(ends) + 1 ELSE SetMin(ends), lics)

\* the end of the match that starts at s[i]; 0 if none
bsdMatchEnd(s, i, words, lics) ==
  IF IsWordCh(Ch(s, i - 1)) THEN 0
  ELSE bsdAfterWord(s, {i + Len(w) : w \in {x \in words :
                                              ToUpper(Sub(s, i, i + Len(x) - 1)) = ToUpper(x)}},
                    lics)

\* ReplaceAllString(s, repl) of such an expression, on the bytes from s[from] on
RECURSIVE bsdReplace(_, _, _, _, _)
bsdReplaceFrom(s, from, words, lics, repl, starts) ==
  IF starts = {} THEN Sub(s, from, Len(s))
  ELSE Sub(s, from, SetMin(starts) - 1) \o repl
         \o bsdReplace(s, bsdMatchEnd(s, SetMin(starts), words, lics) + 1, words, lics, repl)

bsdReplace(s, from, words, lics, repl) ==
  bsdReplaceFrom(s, from, words, lics, repl,
                 {i \in from..Len(s) : bsdMatchEnd(s, i, words, lics) > 0})

\* the alternatives and the replacement of reNewBSD, reSimplifiedBSD,
\* reClearBSD and reOldBSD, by the position of the transform that uses them
bsdRules ==
  [n \in {18, 19, 21, 22} |->
     CASE n = 18 -> [words |-> {"Modified", "New", "Revised"}, repl |-> "BSD-3-Clause"]
       [] n = 19 -> [words |-> {"Simplified"}, repl |-> "BSD-2-Clause"]
       [] n = 21 -> [words |-> {"Clear"}, repl |-> "BSD-3-Clause-Clear"]
       [] n = 22 -> [words |-> {"Old", "Original"}, repl |-> "BSD-4-Clause"]]

reBSDReplace(s, rule) == bsdReplace(s, 1, rule.words, {"LICENSE"}, rule.repl)

\* the word, "Free" or "Net" in the spelling of s, of the match that starts at s[i]
freeNetWord(s, starts) ==
  IF starts = {} THEN ""
  ELSE IF ToUpper(Sub(s, SetMin(starts), SetMin(starts) + 3)) = "FREE"
  THEN Sub(s, SetMin(starts), SetMin(starts) + 3)
  ELSE Sub(s, SetMin(starts), SetMin(starts) + 2)

\* reFreeNetBSD `(?i)\b(Free|Net)(-|\s)?BSD((-|\s)Licen[sc]e)?`: FindStringSubmatch(s)[1], "" if no match
reFreeNetBSDFind(s) ==
  freeNetWord(s, {i \in 1..Len(s) :
                    bsdMatchEnd(s, i, {"Free", "Net"}, {"LICENSE", "LICENCE"}) > 0})

\* reCCSpaceDigit `\s+(\d)`, ReplaceAllString(s, "-$1")
RECURSIVE reCCSpaceDigitReplace(_)
reCCSpaceDigitSplice(s, i, e) ==
  SubSeq(s, 1, i - 1) \o "-" \o Ch(s, e) \o reCCSpaceDigitReplace(From(s, e + 1))

reCCSpaceDigitFrom(s, starts) ==
  IF starts = {} THEN s
  ELSE reCCSpaceDigitSplice(s, SetMin(starts), SkipSpaces(s, SetMin(starts)))

reCCSpaceDigitReplace(s) ==
  reCCSpaceDigitFrom(s, {i \in 1..Len(s) : IsSpace(Ch(s, i)) /\ IsDigit(Ch(s, SkipSpaces(s, i)))})

\* reCCVersion `\d\.\d`, MatchString
reCCVersionMatch(s) ==
  \E i \in 1..Len(s) : IsDigit(Ch(s, i)) /\ Ch(s, i + 1) = "." /\ IsDigit(Ch(s, i + 2))

(***************************************************************************)
(* The transform chain (normalize.go, var transforms), in its order        *)
(***************************************************************************)
NumTransforms == 24

\* the Creative Commons transform, from the string with the names replaced on
ccPrefix(s) == IF ~reCCVersionMatch(s) THEN s \o "-4.0" ELSE s

ccFinish(s, result) ==
  IF result # s /\ ~HasPrefix(result, "CC-") THEN ccPrefix("CC-" \o result) ELSE result

ccTransform(s) ==
  ccFinish(s,
    ReplaceAll(
      reCCSpaceDigitReplace(
        ReplaceAll(ReplaceAll(ReplaceAll(ReplaceAll(s, "Attribution", "BY"),
                                         "NonCommercial", "NC"),
                              "NoDerivatives", "ND"),
                   "ShareAlike", "SA")),
      " International", ""))

freeNetName(s, m) ==
  IF m # ""
  THEN "BSD-2-Clause-" \o ToUpper(Sub(m, 1, 1)) \o ToLower(From(m, 2)) \o "BSD"
  ELSE s

freeNetTransform(s) == freeNetName(s, reFreeNetBSDFind(s))

transforms(k, s) ==
  CASE k = 1  -> ToUpper(s)
    [] k = 2  -> TrimSpace(s)
    [] k = 3  -> ReplaceAll(s, ".", "")
    [] k \in {4, 5} -> reWhitespaceReplace(s, IF k = 4 THEN "" ELSE "-")
    [] k = 6  -> ReplaceFirst(s, "v", "-")
    [] k = 7  -> reDigitReplace(s)
    [] k = 8  -> reDigitEndReplace(s)
    [] k = 9  -> reVersionReplace(s)
    [] k = 10 -> reVersionEndReplace(s)
    [] k = 11 -> IF Len(s) = 0 THEN s ELSE ToUpper(Sub(s, 1, 1)) \o From(s, 2)
    [] k = 12 -> ReplaceAll(s, "/", "-")
    [] k = 13 -> IF Contains(s, "3.0") THEN s \o "-or-later" ELSE s \o "-only"
    [] k = 14 -> IF HasSuffix(s, "-") THEN s \o "only" ELSE s
    [] k = 15 -> reTrailingDigitReplace(s)
    [] k = 16 -> reBSDNumReplace(s)
    [] k = 17 -> reBSDClauseReplace(s)
    [] k \in {18, 19, 21, 22} -> reBSDReplace(s, bsdRules[k])
    [] k = 20 -> freeNetTransform(s)
    [] k = 23 -> IF HasPrefix(ToUpper(s), "BY-") THEN "CC-" \o s ELSE s
    [] k = 24 -> ccTransform(s)

(***************************************************************************)
(* The tiers of the normalizer (normalize.go) and Normalize (spdx.go).     *)
(* A tier returns "" when it finds nothing.                                *)
(***************************************************************************)
pickFirst(results, hits) == IF hits = {} THEN "" ELSE results[SetMin(hits)]

\* the first non-empty string of results, a function on 1..n; "" if none:
\* what a loop returns that returns at its first non-empty result
FirstNonEmpty(results) == pickFirst(results, {k \in DOMAIN results : results[k] # ""})

\* transformHit without the upgrade of deprecated identifiers
transformHitRaw(v, transformed, plus) ==
  IF transformed # v /\ lookupLicense(transformed) # ""
  THEN lookupLicense(transformed) \o plus
  ELSE ""

\* the license that transformed names, with plus appended, when the
\* transform changed v; "" otherwise
transformHit(v, transformed, plus) ==
  IF transformed # v /\ lookupLicense(transformed) # ""
  THEN upgradeGPL(lookupLicense(transformed) \o plus)
  ELSE ""

\* the strings one iteration of the loop of tryTransforms transforms: s, and
\* its base when s ends in "+"
transformInputs(s) ==
  IF HasSuffix(s, "+")
  THEN << [v |-> s, plus |-> ""], [v |-> TrimSuffix(s, "+"), plus |-> "+"] >>
  ELSE << [v |-> s, plus |-> ""] >>

transformOn(k, in) == transformHit(in.v, TrimSpace(transforms(k, in.v)), in.plus)

\* what the k-th transform finds for s: the body of the loop of tryTransforms
transformStep(s, k) ==
  FirstNonEmpty([j \in DOMAIN transformInputs(s) |-> transformOn(k, transformInputs(s)[j])])

tryTransforms(s) == FirstNonEmpty([k \in 1..NumTransforms |-> transformStep(s, k)])

correctedFold(s, trans, c) == IF c = s THEN ReplaceAllFold(s, trans.from, trans.to) ELSE c

\* the string a transposition turns s into
corrected(s, trans) == correctedFold(s, trans, ReplaceAll(s, trans.from, trans.to))

transMatches(s, trans) == Contains(s, trans.from) \/ Contains(ToUpper(s), ToUpper(trans.from))

transpositionHit(c) ==
  IF lookupLicense(c) # "" THEN upgradeGPL(lookupLicense(c)) ELSE tryTransforms(c)

\* what a transposition finds for s: the body of the loop of tryTranspositions
transpositionStep(s, trans) ==
  IF ~transMatches(s, trans) THEN "" ELSE transpositionHit(corrected(s, trans))

transpositionResults(s, table) == [r \in DOMAIN table |-> transpositionStep(s, table[r])]

tryTranspositions(s) == FirstNonEmpty(transpositionResults(s, transpositions))

\* pickLastResort that takes the last entry that matches
pickLastResortLast(table, hits) ==
  IF hits = {} THEN "" ELSE upgradeGPL(table[CHOOSE r \in hits : \A q \in hits : q <= r].license)

pickLastResort(table, hits) ==
  IF hits = {} THEN "" ELSE upgradeGPL(table[SetMin(hits)].license)

firstLastResort(table, upper) ==
  pickLastResort(table, {r \in DOMAIN table : Contains(upper, table[r].substring)})

tryLastResorts(s) == firstLastResort(lastResorts, ToUpper(s))

\* the body of the loop of tryTranspositionsWithLastResorts
lastResortStep(s, trans) ==
  IF transMatches(s, trans) THEN tryLastResorts(corrected(s, trans)) ELSE ""

lastResortResults(s, table) == [r \in DOMAIN table |-> lastResortStep(s, table[r])]

tryTranspositionsWithLastResorts(s) == FirstNonEmpty(lastResortResults(s, transpositions))

Ok(id) == [id |-> id, err |-> "nil"]

Fail(e) == [id |-> "", err |-> e]

\* firstTier that consults the last resorts before the transforms
firstTierLastResortsFirst(byTransforms, byTranspositions, byLastResorts, byBoth) ==
  IF byLastResorts # "" THEN Ok(byLastResorts)
  ELSE IF byTransforms # "" THEN Ok(byTransforms)
  ELSE IF byTranspositions # "" THEN Ok(byTranspositions)
  ELSE IF byBoth # "" THEN Ok(byBoth)
  ELSE Fail("ErrInvalidLicense")

\* the fuzzy tiers of Normalize, each consulted only if those before it found nothing
firstTier(byTransforms, byTranspositions, byLastResorts, byBoth) ==
  IF byTransforms # "" THEN Ok(byTransforms)
  ELSE IF byTranspositions # "" THEN Ok(byTranspositions)
  ELSE IF byLastResorts # "" THEN Ok(byLastResorts)
  ELSE IF byBoth # "" THEN Ok(byBoth)
  ELSE Fail("ErrInvalidLicense")

\* Normalize from the trimmed string on
normalizeTrimmed(license) ==
  IF license = "" THEN Fail("ErrInvalidLicense")
  ELSE IF lookupLicense(license) # "" THEN Ok(upgradeGPL(lookupLicense(license)))
  ELSE IF /\ TrimSuffix(license, "+") # license
          /\ lookupLicense(TrimSuffix(license, "+")) # ""
       THEN Ok(upgradeGPL(lookupLicense(TrimSuffix(license, "+")) \o "+"))
  ELSE firstTier(tryTransforms(license), tryTranspositions(license),
                 tryLastResorts(license), tryTranspositionsWithLastResorts(license))

Normalize(str) == normalizeTrimmed(TrimSpace(str))

(***************************************************************************)
(* Errors.  An error value is its kind (the sentinel that errors.Is        *)
(* matches) and the token or phrase it carries.                            *)
(***************************************************************************)
NoErr == [kind |-> "nil", arg |-> ""]

Err(kind, arg) == [kind |-> kind, arg |-> arg]

(***************************************************************************)
(* The expression pre-processor (parse_lax.go)                             *)
(***************************************************************************)
\* the closure flush of tokenizeForNormalization, for a word whose upper-case
\* form is upper
wordTokenOf(word, upper) ==
  IF upper \in {"AND", "OR", "WITH"}
  THEN [value |-> upper, isOp |-> TRUE, isParen |-> FALSE, isPlus |-> FALSE]
  ELSE [value |-> word, isOp |-> FALSE, isParen |-> FALSE, isPlus |-> FALSE]

wordToken(word) == wordTokenOf(word, ToUpper(word))

\* where the word that starts at expr[i] stops: at a parenthesis, a plus, a
\* space or the end of the input
wordStop(expr, i) ==
  SetMin({k \in i..(Len(expr) + 1) :
            \/ k > Len(expr)
            \/ IsSpace(Ch(expr, k))
            \/ Ch(expr, k) \in {"(", ")", "+"}})

RECURSIVE tokenizeFrom(_, _, _)
\* one word of tokenizeForNormalization: expr[i..stop-1]
tokenizeWord(expr, i, tokens, stop) ==
  tokenizeFrom(expr, stop, Append(tokens, wordToken(SubSeq(expr, i, stop - 1))))

\* one byte ch = expr[i] of the loop of tokenizeForNormalization
tokenizeCh(expr, i, tokens, ch) ==
  IF ch = "(" \/ ch = ")"
  THEN tokenizeFrom(expr, i + 1,
         Append(tokens, [value |-> ch, isOp |-> FALSE, isParen |-> TRUE, isPlus |-> FALSE]))
  ELSE IF ch = "+"
  THEN tokenizeFrom(expr, i + 1,
         Append(tokens, [value |-> "+", isOp |-> FALSE, isParen |-> FALSE, isPlus |-> TRUE]))
  ELSE IF IsSpace(ch) THEN tokenizeFrom(expr, i + 1, tokens)
  ELSE tokenizeWord(expr, i, tokens, wordStop(expr, i))

\* the loop of tokenizeForNormalization from expr[i] on; a word is flushed at
\* the parenthesis, plus, space or end of input that follows it
tokenizeFrom(expr, i, tokens) ==
  IF i > Len(expr) THEN tokens ELSE tokenizeCh(expr, i, tokens, Ch(expr, i))

tokenizeForNormalization(expr) == tokenizeFrom(expr, 1, << >>)

RECURSIVE normalizeSpan(_, _)
\* the body of the inner loop of normalizeLicenseWords for one candidate, n
\* being what Normalize returned for it; plus says that the candidate is the
\* base of a phrase that ended in "+"
spanResult(candidate, plus, n) ==
  IF n.err = "nil"
  THEN [matched |-> TRUE, id |-> IF plus THEN upgradeGPL(n.id \o "+") ELSE n.id]
  ELSE IF ~plus /\ HasSuffix(candidate, "+")
  THEN normalizeSpan(TrimSuffix(candidate, "+"), TRUE)
  ELSE [matched |-> FALSE, id |-> ""]

normalizeSpan(candidate, plus) == spanResult(candidate, plus, Normalize(candidate))

RECURSIVE matchSpan(_, _, _)
spanOr(words, i, end, m) ==
  IF m.matched THEN [matched |-> TRUE, id |-> m.id, next |-> end + 1]
  ELSE matchSpan(words, i, end - 1)

\* matchSpan that tries the single word words[i] only
singleSpan(i, m) == [matched |-> m.matched, id |-> m.id, next |-> i + 1]

matchSpanSingle(words, i, end) == singleSpan(i, normalizeSpan(words[i], FALSE))

\* the inner loop of normalizeLicenseWords: the longest span words[i..end]
\* that normalizes, tried from end down to i (1-based, inclusive)
matchSpan(words, i, end) ==
  IF end < i THEN [matched |-> FALSE, id |-> "", next |-> i]
  ELSE spanOr(words, i, end, normalizeSpan(Join(SubSeq(words, i, end), " "), FALSE))

RECURSIVE normalizeSpans(_, _, _)
spanNext(words, i, results, m) ==
  IF ~m.matched THEN [out |-> "", err |-> Err("ErrInvalidLicenseID", words[i])]
  ELSE normalizeSpans(words, m.next, Append(results, m.id))

\* the outer loop of normalizeLicenseWords from words[i] on
normalizeSpans(words, i, results) ==
  IF i > Len(words) THEN [out |-> Join(results, " "), err |-> NoErr]
  ELSE spanNext(words, i, results, matchSpan(words, i, Len(words)))

\* normalizeLicenseWords for a single word whose upper-case form is upper
passThrough(words, upper) ==
  IF upper \in {"NONE", "NOASSERTION"} THEN [out |-> upper, err |-> NoErr]
  ELSE IF HasPrefix(upper, "LICENSEREF-") \/ HasPrefix(upper, "DOCUMENTREF-")
  THEN [out |-> words[1], err |-> NoErr]
  ELSE normalizeSpans(words, 1, << >>)

normalizeLicenseWords(words) ==
  IF Len(words) = 0 THEN [out |-> "", err |-> Err("ErrMissingOperand", "")]
  ELSE IF Len(words) = 1 THEN passThrough(words, ToUpper(words[1]))
  ELSE normalizeSpans(words, 1, << >>)

\* writeLicense that joins the identifiers of a phrase by AND
writeLicenseAnd(result, n) ==
  IF n.err # NoErr THEN [result |-> result, err |-> n.err]
  ELSE IF Len(result) > 0 /\ ~HasSuffix(result, "(")
  THEN [result |-> result \o " " \o ReplaceAll(n.out, " ", " AND "), err |-> NoErr]
  ELSE [result |-> result \o ReplaceAll(n.out, " ", " AND "), err |-> NoErr]

\* the closure flushLicense of normalizeTokens once normalizeLicenseWords has
\* returned n; the new result buffer and the error
writeLicense(result, n) ==
  IF n.err # NoErr THEN [result |-> result, err |-> n.err]
  ELSE IF Len(result) > 0 /\ ~HasSuffix(result, "(")
  THEN [result |-> result \o " " \o n.out, err |-> NoErr]
  ELSE [result |-> result \o n.out, err |-> NoErr]

flushLicense(result, licenseWords) ==
  IF Len(licenseWords) = 0 THEN [result |-> result, err |-> NoErr]
  ELSE writeLicense(result, normalizeLicenseWords(licenseWords))

\* writeException without the space that separates the exception from WITH
writeExceptionUnspaced(result, exc, found) ==
  IF found = "" THEN [result |-> result, err |-> Err("ErrInvalidException", exc)]
  ELSE [result |-> result \o found, err |-> NoErr]

\* the closure flushException once exc is chosen, found being what
\* lookupException returns for it
writeException(result, exc, found) ==
  IF found = "" THEN [result |-> result, err |-> Err("ErrInvalidException", exc)]
  ELSE [result |-> result \o " " \o found, err |-> NoErr]

\* exceptionName that never tries the words joined by "-"
exceptionNamePlain(dashed, plain) == plain

\* the spelling flushException looks up: the words joined by "-", or by " "
\* if the first is no exception
exceptionName(dashed, plain) == IF lookupException(dashed) = "" THEN plain ELSE dashed

exceptionOf(result, exc) == writeException(result, exc, lookupException(exc))

flushException(result, licenseWords) ==
  IF Len(licenseWords) = 0 THEN [result |-> result, err |-> NoErr]
  ELSE exceptionOf(result, exceptionName(Join(licenseWords, "-"), Join(licenseWords, " ")))

flushWords(result, licenseWords, expectException) ==
  IF expectException THEN flushException(result, licenseWords)
  ELSE flushLicense(result, licenseWords)

\* writeParen that writes no closing parenthesis
writeParenOpening(result, tok) == IF tok.value = "(" THEN result \o "(" ELSE result

\* what normalizeTokens writes for the parenthesis tok after the flush
writeParen(result, tok) ==
  IF tok.value = "("
  THEN IF Len(result) > 0 /\ ~HasSuffix(result, "(") /\ ~HasSuffix(result, " ")
       THEN result \o " (" ELSE result \o "("
  ELSE result \o ")"

RECURSIVE normalizeTokensFrom(_, _, _, _, _)
\* normalizeTokens at an operator, a parenthesis or the end of the tokens,
\* f being what the flush returned
afterFlush(tokens, i, f) ==
  IF f.err # NoErr THEN [out |-> "", err |-> f.err]
  ELSE IF i > Len(tokens) THEN [out |-> TrimSpace(f.result), err |-> NoErr]
  ELSE IF tokens[i].isOp
  THEN normalizeTokensFrom(tokens, i + 1, f.result \o " " \o tokens[i].value, << >>,
                           tokens[i].value = "WITH")
  ELSE normalizeTokensFrom(tokens, i + 1, writeParen(f.result, tokens[i]), << >>, FALSE)

\* attachPlus that drops the "+"
attachPlusDropped(licenseWords) == licenseWords

\* "licenseWords[len(licenseWords)-1] += "+""
attachPlus(licenseWords) ==
  IF Len(licenseWords) > 0
  THEN [licenseWords EXCEPT ![Len(licenseWords)] = @ \o "+"]
  ELSE licenseWords

\* the loop of normalizeTokens from tokens[i] on, and the flush after it
normalizeTokensFrom(tokens, i, result, licenseWords, expectException) ==
  IF i <= Len(tokens) /\ ~tokens[i].isOp /\ ~tokens[i].isParen
  THEN normalizeTokensFrom(tokens, i + 1, result,
         IF tokens[i].isPlus THEN attachPlus(licenseWords)
         ELSE Append(licenseWords, tokens[i].value),
         expectException)
  ELSE afterFlush(tokens, i, flushWords(result, licenseWords, expectException))

normalizeTokens(tokens) == normalizeTokensFrom(tokens, 1, "", << >>, FALSE)

normalizeExpressionString(expr) == normalizeTokens(tokenizeForNormalization(expr))

(***************************************************************************)
(* Expression trees and the renderer                                       *)
(***************************************************************************)
Nil == [kind |-> "nil"]

License(id, plus, exception) ==
  [kind |-> "License", ID |-> id, Plus |-> plus, Exception |-> exception]

LicenseRef(documentRef, licenseRef) ==
  [kind |-> "LicenseRef", DocumentRef |-> documentRef, LicenseRef |-> licenseRef]

AndExpression(left, right) == [kind |-> "AndExpression", Left |-> left, Right |-> right]

OrExpression(left, right) == [kind |-> "OrExpression", Left |-> left, Right |-> right]

SpecialValue(value) == [kind |-> "SpecialValue", Value |-> value]

LicenseString(l) ==
  l.ID \o (IF l.Plus THEN "+" ELSE "")
       \o (IF l.Exception # "" THEN " WITH " \o l.Exception ELSE "")

LicenseRefString(l) ==
  IF l.DocumentRef # ""
  THEN "DocumentRef-" \o l.DocumentRef \o ":LicenseRef-" \o l.LicenseRef
  ELSE "LicenseRef-" \o l.LicenseRef

\* andWrap without the parentheses
andWrapBare(child, str) == str

\* the parentheses AndExpression.String puts around a child
andWrap(child, str) == IF child.kind = "OrExpression" THEN "(" \o str \o ")" ELSE str

\* the parentheses OrExpression.String puts around a child
orWrap(child, str) ==
  IF child.kind = "AndExpression" THEN "(" \o str \o ")"
  ELSE IF child.kind = "License" /\ child.Exception # "" THEN "(" \o str \o ")"
  ELSE str

RECURSIVE String(_)
String(e) ==
  CASE e.kind = "License" -> LicenseString(e)
    [] e.kind = "LicenseRef" -> LicenseRefString(e)
    [] e.kind = "SpecialValue" -> e.Value
    [] e.kind = "AndExpression" ->
         andWrap(e.Left, String(e.Left)) \o " AND " \o andWrap(e.Right, String(e.Right))
    [] e.kind = "OrExpression" ->
         orWrap(e.Left, String(e.Left)) \o " OR " \o orWrap(e.Right, String(e.Right))

\* Licenses that keeps the first of equal entries only
RECURSIVE LicensesUnique(_)
Unique(ls) == SelectSeq([k \in DOMAIN ls |-> IF \E j \in 1..(k - 1) : ls[j] = ls[k] THEN "" ELSE ls[k]],
                        LAMBDA x : x # "")

LicensesUnique(e) ==
  CASE e.kind = "License" -> <<e.ID>>
    [] e.kind = "LicenseRef" -> <<LicenseRefString(e)>>
    [] e.kind = "SpecialValue" -> << >>
    [] e.kind \in {"AndExpression", "OrExpression"} ->
         Unique(LicensesUnique(e.Left) \o LicensesUnique(e.Right))

RECURSIVE Licenses(_)
Licenses(e) ==
  CASE e.kind = "License" -> <<e.ID>>
    [] e.kind = "LicenseRef" -> <<LicenseRefString(e)>>
    [] e.kind = "SpecialValue" -> << >>
    [] e.kind \in {"AndExpression", "OrExpression"} -> Licenses(e.Left) \o Licenses(e.Right)

(***************************************************************************)
(* The lexer.  pos is the 1-based index of the next byte to read.          *)
(***************************************************************************)
Token(typ, value) == [typ |-> typ, value |-> value]

\* wordEnd for a loop that does not stop at "+"
wordEndPastPlus(input, pos) ==
  SetMin({k \in pos..(Len(input) + 1) :
            \/ k > Len(input)
            \/ IsSpace(Ch(input, k))
            \/ Ch(input, k) \in {"(", ")"}})

\* where the loop of lexer.next that reads an identifier or keyword stops
wordEnd(input, pos) ==
  SetMin({k \in pos..(Len(input) + 1) :
            \/ k > Len(input)
            \/ IsSpace(Ch(input, k))
            \/ Ch(input, k) \in {"(", ")", "+"}})

\* the token lexer.next makes of a word whose upper-case form is upper
classifyAs(word, upper) ==
  IF upper = "AND" THEN Token("tokenAnd", "AND")
  ELSE IF upper = "OR" THEN Token("tokenOr", "OR")
  ELSE IF upper = "WITH" THEN Token("tokenWith", "WITH")
  ELSE IF HasPrefix(upper, "DOCUMENTREF-") THEN Token("tokenDocumentRef", word)
  ELSE IF HasPrefix(upper, "LICENSEREF-") THEN Token("tokenLicenseRef", word)
  ELSE Token("tokenLicense", word)

classify(word) == CHOOSE t \in {classifyAs(w, ToUpper(w)) : w \in {word}} : TRUE

\* lexer.next for the identifier or keyword input[start..stop-1]
nextWord(input, start, stop) ==
  IF stop = start
  THEN [tok |-> Token("", ""), pos |-> stop, err |-> Err("unexpected character", Ch(input, start))]
  ELSE [tok |-> classify(SubSeq(input, start, stop - 1)), pos |-> stop, err |-> NoErr]

\* lexer.next after skipWhitespace, ch being input[start]
nextAt(input, start, ch) ==
  IF start > Len(input) THEN [tok |-> Token("tokenEOF", ""), pos |-> start, err |-> NoErr]
  ELSE IF ch = "(" THEN [tok |-> Token("tokenOpenParen", "("), pos |-> start + 1, err |-> NoErr]
  ELSE IF ch = ")" THEN [tok |-> Token("tokenCloseParen", ")"), pos |-> start + 1, err |-> NoErr]
  ELSE IF ch = "+" THEN [tok |-> Token("tokenPlus", "+"), pos |-> start + 1, err |-> NoErr]
  ELSE nextWord(input, start, wordEnd(input, start))

nextFrom(input, start) == nextAt(input, start, Ch(input, start))

\* lexer.next: the token, the new position and the error
next(input, pos0) ==
  CHOOSE n \in {nextFrom(input, start) : start \in {SkipSpaces(input, pos0)}} : TRUE

(***************************************************************************)
(* The parser.  A parser state is the lexer position and the current       *)
(* token; every parse function returns the expression, the error and the   *)
(* parser state it leaves.                                                 *)
(***************************************************************************)
\* parser.advance once lexer.next has returned n
advanceTo(p, n) ==
  IF n.err # NoErr THEN [pos |-> n.pos, current |-> p.current, err |-> n.err]
  ELSE [pos |-> n.pos, current |-> n.tok, err |-> NoErr]

advance(input, p) == CHOOSE q \in {advanceTo(p, n) : n \in {next(input, p.pos)}} : TRUE

newParser(input) == advance(input, [pos |-> 1, current |-> Token("", ""), err |-> NoErr])

Parsed(expr, p) == [expr |-> expr, err |-> NoErr, p |-> p]

Failed(err, p) == [expr |-> Nil, err |-> err, p |-> p]

parseLicenseRef(str) ==
  IF HasPrefix(ToUpper(str), "LICENSEREF-") THEN LicenseRef("", From(str, 12))
  ELSE LicenseRef("", str)

\* parseDocumentRef for rest = s[12:], idx being the 1-based index of
\* ":LICENSEREF-" in its upper-case form, 0 if there is none
splitDocumentRef(str, rest, idx) ==
  IF idx # 0 THEN LicenseRef(SubSeq(rest, 1, idx - 1), From(rest, idx + 12))
  ELSE LicenseRef("", str)

documentRefOf(str, rest) == splitDocumentRef(str, rest, Index(ToUpper(rest), ":LICENSEREF-"))

parseDocumentRef(str) ==
  IF HasPrefix(ToUpper(str), "DOCUMENTREF-") THEN documentRefOf(str, From(str, 13))
  ELSE LicenseRef("", str)

RECURSIVE parseExpression(_, _)
RECURSIVE parseOrLoop(_, _, _)
RECURSIVE parseAnd(_, _)
RECURSIVE parseAndLoop(_, _, _)
RECURSIVE parseWith(_, _)
RECURSIVE parseAtom(_, _)

\* "if err := p.advance(); err != nil { return nil, err }; return expr, nil",
\* p being the parser after the advance
afterAdvance(expr, p) == IF p.err # NoErr THEN Failed(p.err, p) ELSE Parsed(expr, p)

\* parseAtom after the expression in parentheses has been parsed
closeParen(input, inner) ==
  IF inner.err # NoErr THEN inner
  ELSE IF inner.p.current.typ # "tokenCloseParen"
  THEN Failed(Err("ErrUnbalancedParens", ""), inner.p)
  ELSE afterAdvance(inner.expr, advance(input, inner.p))

\* parseAtom after the advance over "("
openParen(input, p1) ==
  IF p1.err # NoErr THEN Failed(p1.err, p1) ELSE closeParen(input, parseExpression(input, p1))

\* parseAtom after the advance over a license identifier: "Check for +"
checkPlus(input, id, p1) ==
  IF p1.err # NoErr THEN Failed(p1.err, p1)
  ELSE IF p1.current.typ = "tokenPlus"
  THEN afterAdvance(License(id, TRUE, ""), advance(input, p1))
  ELSE Parsed(License(id, FALSE, ""), p1)

\* parseAtom for a license token that is no special value, id being what
\* lookupLicense returns for it
licenseAtom(input, p, id) ==
  IF id = "" THEN Failed(Err("ErrInvalidLicenseID", p.current.value), p)
  ELSE checkPlus(input, id, advance(input, p))

\* parseAtom at a tokenLicense whose upper-case form is upper
wordAtom(input, p, upper) ==
  IF upper \in {"NONE", "NOASSERTION"}
  THEN afterAdvance(SpecialValue(upper), advance(input, p))
  ELSE licenseAtom(input, p, lookupLicense(p.current.value))

\* parseAtom at a token of type typ that opens no parenthesis and is no
\* license word
otherAtom(input, p, typ) ==
  IF typ = "tokenLicenseRef"
  THEN afterAdvance(parseLicenseRef(p.current.value), advance(input, p))
  ELSE IF typ = "tokenDocumentRef"
  THEN afterAdvance(parseDocumentRef(p.current.value), advance(input, p))
  ELSE IF typ = "tokenEOF" THEN Failed(Err("ErrMissingOperand", ""), p)
  ELSE Failed(Err("ErrUnexpectedToken", p.current.value), p)

parseAtom(input, p) ==
  IF p.current.typ = "tokenOpenParen" THEN openParen(input, advance(input, p))
  ELSE IF p.current.typ = "tokenLicense" THEN wordAtom(input, p, ToUpper(p.current.value))
  ELSE otherAtom(input, p, p.current.typ)

\* parseWith at the exception word, exception being what lookupException
\* returns for it: "license.Exception = exception", then the advance
setException(input, license, p1, exception) ==
  IF exception = "" THEN Failed(Err("ErrInvalidException", p1.current.value), p1)
  ELSE afterAdvance([license EXCEPT !.Exception = exception], advance(input, p1))

\* parseWith after the advance over WITH
withException(input, license, p1) ==
  IF p1.err # NoErr THEN Failed(p1.err, p1)
  ELSE IF p1.current.typ # "tokenLicense"
  THEN Failed(Err("ErrMissingOperand", "expected exception after WITH"), p1)
  ELSE setException(input, license, p1, lookupException(p1.current.value))

\* parseWith after parseAtom has returned left
withAfter(input, left) ==
  IF left.err # NoErr THEN left
  ELSE IF left.p.current.typ # "tokenWith" THEN left
  ELSE IF left.expr.kind # "License"
  THEN Failed(Err("ErrUnexpectedToken", "WITH can only follow a license"), left.p)
  ELSE withException(input, left.expr, advance(input, left.p))

parseWith(input, p) == withAfter(input, parseAtom(input, p))

\* the body of the loop of parseAnd after parseWith has returned right
andJoin(input, left, right) ==
  IF right.err # NoErr THEN right
  ELSE parseAndLoop(input, AndExpression(left, right.expr), right.p)

\* the body of the loop of parseAnd after the advance over AND
andOperand(input, left, p1) ==
  IF p1.err # NoErr THEN Failed(p1.err, p1) ELSE andJoin(input, left, parseWith(input, p1))

\* "for p.current.typ == tokenAnd"
parseAndLoop(input, left, p) ==
  IF p.current.typ # "tokenAnd" THEN Parsed(left, p)
  ELSE andOperand(input, left, advance(input, p))

andFirst(input, left) ==
  IF left.err # NoErr THEN left ELSE parseAndLoop(input, left.expr, left.p)

parseAnd(input, p) == andFirst(input, parseWith(input, p))

\* the body of the loop of parseExpression after parseAnd has returned right
orJoin(input, left, right) ==
  IF right.err # NoErr THEN right
  ELSE parseOrLoop(input, OrExpression(left, right.expr), right.p)

\* orOperand with the right operand of OR parsed at the level of WITH, as if
\* AND bound no tighter than OR
orOperandTight(input, left, p1) ==
  IF p1.err # NoErr THEN Failed(p1.err, p1) ELSE orJoin(input, left, parseWith(input, p1))

\* the body of the loop of parseExpression after the advance over OR
orOperand(input, left, p1) ==
  IF p1.err # NoErr THEN Failed(p1.err, p1) ELSE orJoin(input, left, parseAnd(input, p1))

\* "for p.current.typ == tokenOr"
parseOrLoop(input, left, p) ==
  IF p.current.typ # "tokenOr" THEN Parsed(left, p)
  ELSE orOperand(input, left, advance(input, p))

orFirst(input, left) ==
  IF left.err # NoErr THEN left ELSE parseOrLoop(input, left.expr, left.p)

parseExpression(input, p) == orFirst(input, parseAnd(input, p))

\* checkEOF that does not look at the token after the expression
checkEOFLoose(r) ==
  IF r.err # NoErr THEN [expr |-> Nil, err |-> r.err]
  ELSE [expr |-> r.expr, err |-> NoErr]

\* the end of Parse and ParseStrict, r being what parseExpression returned
checkEOF(r) ==
  IF r.err # NoErr THEN [expr |-> Nil, err |-> r.err]
  ELSE IF r.p.current.typ # "tokenEOF"
  THEN [expr |-> Nil, err |-> Err("ErrUnexpectedToken", r.p.current.value)]
  ELSE [expr |-> r.expr, err |-> NoErr]

\* Parse and ParseStrict from newParser on, p being what it returned
parseWithParser(text, p) ==
  IF p.err # NoErr THEN [expr |-> Nil, err |-> p.err]
  ELSE checkEOF(parseExpression(text, p))

\* the part that Parse and ParseStrict share: parse the whole of text
parseAll(text) == parseWithParser(text, newParser(text))

\* Parse once normalizeExpressionString has returned normalized
parseNormalized(normalized) ==
  IF normalized.err # NoErr THEN [expr |-> Nil, err |-> normalized.err]
  ELSE parseAll(normalized.out)

parseTrimmed(expression) ==
  IF expression = "" THEN [expr |-> Nil, err |-> Err("ErrEmptyExpression", "")]
  ELSE parseNormalized(normalizeExpressionString(expression))

Parse(str) == parseTrimmed(TrimSpace(str))

\* parseStrictTrimmed without the test for the empty expression
parseStrictUnchecked(expression) == parseAll(expression)

parseStrictTrimmed(expression) ==
  IF expression = "" THEN [expr |-> Nil, err |-> Err("ErrEmptyExpression", "")]
  ELSE parseAll(expression)

\* ParseStrict with the normalization pass of Parse
ParseStrictNormalizing(str) == Parse(str)

ParseStrict(str) == parseStrictTrimmed(TrimSpace(str))

Valid(expression) == ParseStrict(expression).err = NoErr

(***************************************************************************)
(* The expression normalizer of spdx.go                                    *)
(***************************************************************************)
\* NormalizeExpression once Parse has returned r
renderParsed(r) ==
  IF r.err # NoErr THEN [out |-> "", err |-> r.err]
  ELSE [out |-> String(r.expr), err |-> NoErr]

NormalizeExpression(expression) == renderParsed(Parse(expression))

(***************************************************************************)
(* License categories (category.go).  The embedded licenses.json is        *)
(* represented by a sample of its entries.                                 *)
(***************************************************************************)
licenseEntry(key, category, spdx, others) ==
  [LicenseKey |-> key, Category |-> category, SPDXLicenseKey |-> spdx, OtherSPDXKeys |-> others]

licenseData ==
  << licenseEntry("mit", "Permissive", "MIT", << >>),
     licenseEntry("apache-2.0", "Permissive", "Apache-2.0", << >>),
     licenseEntry("bsd-new", "Permissive", "BSD-3-Clause", <<"LicenseRef-scancode-libzip">>),
     licenseEntry("unlicense", "Public Domain", "Unlicense", << >>),
     licenseEntry("gpl-2.0", "Copyleft", "GPL-2.0-only", <<"GPL-2.0">>),
     licenseEntry("gpl-2.0-plus", "Copyleft", "GPL-2.0-or-later", <<"GPL-2.0+">>),
     licenseEntry("gpl-3.0", "Copyleft", "GPL-3.0-only", <<"GPL-3.0">>),
     licenseEntry("gpl-3.0-plus", "Copyleft", "GPL-3.0-or-later", <<"GPL-3.0+">>),
     licenseEntry("lgpl-2.1", "Copyleft Limited", "LGPL-2.1-only", <<"LGPL-2.1">>),
     licenseEntry("mpl-2.0", "Copyleft Limited", "MPL-2.0", << >>),
     licenseEntry("proprietary-license", "", "LicenseRef-scancode-proprietary-license", << >>) >>

\* the keys the body of initCategoryMap maps for one entry
entryKeys(entry) ==
  (IF entry.SPDXLicenseKey # "" THEN {ToLower(entry.SPDXLicenseKey)} ELSE {})
  \cup {ToLower(entry.OtherSPDXKeys[k]) :
          k \in {j \in DOMAIN entry.OtherSPDXKeys :
                   ~HasPrefix(entry.OtherSPDXKeys[j], "LicenseRef-")}}
  \cup {ToLower(entry.LicenseKey)}

entryCategory(entry) == IF entry.Category = "" THEN "Unknown" ELSE entry.Category

\* categoryMap[key] as initCategoryMap leaves it: the last entry that maps
\* the key wins; "" stands for a key that is not in the map
categoryOf(key, hits) ==
  IF hits = {} THEN "" ELSE entryCategory(licenseData[SetMax(hits)])

categoryMap(key) == categoryOf(key, {k \in DOMAIN licenseData : key \in entryKeys(licenseData[k])})

\* LicenseCategory after the exact match has failed
categoryTrimmed(cat) == IF cat # "" THEN cat ELSE "Unknown"

categoryExact(license, cat) ==
  IF cat # "" THEN cat
  ELSE categoryTrimmed(categoryMap(ToLower(TrimSuffix(TrimSuffix(license, "-only"), "-or-later"))))

LicenseCategory(license) == categoryExact(license, categoryMap(ToLower(license)))

IsCopyleft(license) == LicenseCategory(license) \in {"Copyleft", "Copyleft Limited"}

\* the sequence ls without the later of equal entries
Distinct(ls) ==
  SelectSeq([k \in DOMAIN ls |-> IF \E j \in 1..(k - 1) : ls[j] = ls[k] THEN "" ELSE ls[k]],
            LAMBDA x : x # "")

\* ExtractLicenses hands the expression to spdxexp.ExtractLicenses of another
\* module, which parses SPDX expressions proper and knows no informal names;
\* ParseStrict stands for its parser
extracted(r) ==
  IF r.err # NoErr THEN [licenses |-> << >>, err |-> r.err]
  ELSE [licenses |-> Distinct(Licenses(r.expr)), err |-> NoErr]

ExtractLicenses(expression) == extracted(ParseStrict(expression))

\* HasCopyleft once ExtractLicenses has returned x
anyCopyleft(x) ==
  IF x.err # NoErr THEN FALSE
  ELSE \E k \in DOMAIN x.licenses : IsCopyleft(x.licenses[k])

HasCopyleft(expression) == anyCopyleft(ExtractLicenses(expression))

(***************************************************************************)
(* The state machine.  Three kinds of caller are modelled, each with its   *)
(* own initial states and steps:                                           *)
(*   Spec           a caller hands an expression to Parse or ParseStrict,  *)
(*                  renders the tree it got back and parses the rendering  *)
(*                  again;                                                 *)
(*   SpecTree       a caller builds an expression tree from the exported   *)
(*                  node types, renders it and parses the rendering with   *)
(*                  ParseStrict;                                           *)
(*   SpecNormalize  a caller hands a phrase to Normalize, ValidLicense,    *)
(*                  upgradeGPL and normalizeLicenseWords.                  *)
(***************************************************************************)
VARIABLES operands, operators, input, pc, api, result, rendered, reparsed,
          tree, words, phrase, normalized, valid, upgraded, upgradedTwice,
          emitted, expression, copyleft, thread, once, stage, raced, lateWrite,
          cursor, current, tokens, source, stack, ret, offset, results, matches

vars == <<operands, operators, input, pc, api, result, rendered, reparsed,
          tree, words, phrase, normalized, valid, upgraded, upgradedTwice,
          emitted, expression, copyleft, thread, once, stage, raced, lateWrite,
          cursor, current, tokens, source, stack, ret, offset, results, matches>>

callVars == <<expression, copyleft>>

concVars == <<thread, once, stage, raced, lateWrite>>

\* the lexer position and current token of a parser, the tokens read so far,
\* the text being parsed, the calls in progress, what the last one returned,
\* the offset and results of the loop of normalizeLicenseWords, and what its
\* inner loop finds from each offset
stepVars == <<cursor, current, tokens, source, stack, ret, offset, results, matches>>

exprVars == <<operands, operators, input, api, result>>

normVars == <<words, phrase, normalized, valid, upgraded, upgradedTwice, emitted>>

NoResult == [expr |-> Nil, err |-> NoErr]

NoNormalized == [id |-> "", err |-> "nil"]

NoEmitted == [out |-> "", err |-> NoErr]

\* the operands a caller writes between the operators of an expression
Operands ==
  {"mit", "mit+", "GPL-2.0", "NONE", "llvm-exception", "Apache 2", "LicenseRef-custom",
   "(mit)", "(mit WITH GCC-exception-3.1)"}

Operators == {"AND", "OR", "WITH"}

\* x1 op1 x2 op2 ... xn as a sequence of pieces
Interleave(xs, ops) ==
  [i \in 1..(2 * Len(xs) - 1) |->
     IF i % 2 = 1 THEN xs[(i + 1) \div 2] ELSE ops[i \div 2]]

ExprIdle ==
  /\ operands = << >>
  /\ operators = << >>
  /\ input = ""
  /\ api = "none"
  /\ result = NoResult

TreeIdle == tree = Nil

NormIdle ==
  /\ words = << >>
  /\ phrase = ""
  /\ normalized = NoNormalized
  /\ valid = FALSE
  /\ upgraded = ""
  /\ upgradedTwice = ""
  /\ emitted = NoEmitted

CallIdle ==
  /\ expression = NoEmitted
  /\ copyleft = FALSE

ConcIdle ==
  /\ thread = << >>
  /\ once = << >>
  /\ stage = << >>
  /\ raced = FALSE
  /\ lateWrite = FALSE

StepIdle ==
  /\ cursor = 1
  /\ current = [typ |-> "", value |-> ""]
  /\ tokens = << >>
  /\ source = ""
  /\ stack = << >>
  /\ ret = [expr |-> Nil, err |-> NoErr]
  /\ offset = 1
  /\ results = << >>
  /\ matches = << >>

Init ==
  /\ \E n \in 1..MaxOperands :
       \E xs \in [1..n -> Operands], ops \in [1..(n - 1) -> Operators] :
         /\ operands = xs
         /\ operators = ops
         /\ input = Join(Interleave(xs, ops), " ")
  /\ pc = "start"
  /\ api = "none"
  /\ result = NoResult
  /\ rendered = ""
  /\ reparsed = NoResult
  /\ TreeIdle
  /\ NormIdle
  /\ CallIdle
  /\ ConcIdle
  /\ StepIdle

CallParse ==
  /\ pc = "start"
  /\ api' = "Parse"
  /\ result' = Parse(input)
  /\ pc' = "returned"
  /\ UNCHANGED <<operands, operators, input, rendered, reparsed, tree, normVars, callVars, concVars, stepVars>>

CallParseStrict ==
  /\ pc = "start"
  /\ api' = "ParseStrict"
  /\ result' = ParseStrict(input)
  /\ pc' = "returned"
  /\ UNCHANGED <<operands, operators, input, rendered, reparsed, tree, normVars, callVars, concVars, stepVars>>

CallString ==
  /\ pc = "returned"
  /\ result.err = NoErr
  /\ rendered' = String(result.expr)
  /\ pc' = "rendered"
  /\ UNCHANGED <<exprVars, reparsed, tree, normVars, callVars, concVars, stepVars>>

Reparse ==
  /\ pc = "rendered"
  /\ reparsed' = Parse(rendered)
  /\ pc' = "reparsed"
  /\ UNCHANGED <<exprVars, rendered, tree, normVars, callVars, concVars, stepVars>>

Next == CallParse \/ CallParseStrict \/ CallString \/ Reparse

Spec == Init /\ [][Next]_vars

(***************************************************************************)
(* SpecTree: trees built by hand from the exported node types.             *)
(***************************************************************************)
\* the leaves a caller builds: licenses of the vocabulary with and without
\* Plus and Exception, one whose identifier is the deprecated "GPL-2.0+",
\* and license references with and without a document reference
TreeLeaves ==
  {License("MIT", FALSE, ""), License("MIT", TRUE, ""),
   License("Apache-2.0", FALSE, "LLVM-exception"),
   License("GPL-2.0+", FALSE, ""),
   LicenseRef("", "custom"), LicenseRef("doc", "custom")}

RECURSIVE TreesOf(_)
TreesOf(n) ==
  IF n = 1 THEN TreeLeaves
  ELSE UNION {{AndExpression(l, r) : l \in TreesOf(k), r \in TreesOf(n - k)}
              \cup {OrExpression(l, r) : l \in TreesOf(k), r \in TreesOf(n - k)} :
              k \in 1..(n - 1)}

InitTree ==
  /\ tree \in UNION {TreesOf(n) : n \in 1..MaxLeaves}
  /\ pc = "built"
  /\ rendered = ""
  /\ reparsed = NoResult
  /\ ExprIdle
  /\ NormIdle
  /\ CallIdle
  /\ ConcIdle
  /\ StepIdle

RenderTree ==
  /\ pc = "built"
  /\ rendered' = String(tree)
  /\ pc' = "treeRendered"
  /\ UNCHANGED <<exprVars, reparsed, tree, normVars, callVars, concVars, stepVars>>

ReparseStrict ==
  /\ pc = "treeRendered"
  /\ reparsed' = ParseStrict(rendered)
  /\ pc' = "treeReparsed"
  /\ UNCHANGED <<exprVars, rendered, tree, normVars, callVars, concVars, stepVars>>

NextTree == RenderTree \/ ReparseStrict

SpecTree == InitTree /\ [][NextTree]_vars

(***************************************************************************)
(* SpecNormalize: phrases handed to the single-license normalizer.         *)
(***************************************************************************)
\* the GPL-family identifiers, bare and with each suffix
GPLNames ==
  {f \o "-" \o v \o x :
     f \in {"GPL", "LGPL", "AGPL"}, v \in {"1.0", "2.0", "2.1", "3.0"},
     x \in {"", "+", "-only", "-or-later"}}

\* the words informal phrases are made of
PhraseWords ==
  {"MIT", "mit+", "Apache", "2", "GPL", "v3", "2.0+", "License", "GNU",
   "Lesser", "BSD", "PostgreSQL", "LicenseRef-custom", "unknown"}

InitNormalize ==
  /\ \/ \E id \in GPLNames : words = <<id>> /\ phrase = id
     \/ \E n \in 1..MaxWords : words \in [1..n -> PhraseWords] /\ phrase = Join(words, " ")
     \/ words = << >> /\ phrase \in {"", " ", " \t"}
     \/ \E id \in {"mit", "gpl-2.0+"} : words = <<id>> /\ phrase = " " \o id \o "\t "
  /\ pc = "phrase"
  /\ normalized = NoNormalized
  /\ valid = FALSE
  /\ upgraded = ""
  /\ upgradedTwice = ""
  /\ emitted = NoEmitted
  /\ rendered = ""
  /\ reparsed = NoResult
  /\ ExprIdle
  /\ TreeIdle
  /\ CallIdle
  /\ ConcIdle
  /\ StepIdle

CallNormalize ==
  /\ pc = "phrase"
  /\ normalized' = Normalize(phrase)
  /\ pc' = "normalized"
  /\ UNCHANGED <<exprVars, rendered, reparsed, tree, words, phrase, valid,
                 upgraded, upgradedTwice, emitted, callVars, concVars, stepVars>>

CallValidLicense ==
  /\ pc = "normalized"
  /\ normalized.err = "nil"
  /\ valid' = ValidLicense(normalized.id)
  /\ pc' = "validated"
  /\ UNCHANGED <<exprVars, rendered, reparsed, tree, words, phrase, normalized,
                 upgraded, upgradedTwice, emitted, callVars, concVars, stepVars>>

CallUpgradeGPL ==
  /\ pc = "phrase"
  /\ upgraded' = upgradeGPL(phrase)
  /\ pc' = "upgraded"
  /\ UNCHANGED <<exprVars, rendered, reparsed, tree, words, phrase, normalized,
                 valid, upgradedTwice, emitted, callVars, concVars, stepVars>>

CallUpgradeGPLAgain ==
  /\ pc = "upgraded"
  /\ upgradedTwice' = upgradeGPL(upgraded)
  /\ pc' = "upgradedTwice"
  /\ UNCHANGED <<exprVars, rendered, reparsed, tree, words, phrase, normalized,
                 valid, upgraded, emitted, callVars, concVars, stepVars>>

\* normalizeTokens hands its words over only if there are some
CallNormalizeLicenseWords ==
  /\ pc = "phrase"
  /\ words # << >>
  /\ emitted' = normalizeLicenseWords(words)
  /\ pc' = "emitted"
  /\ UNCHANGED <<exprVars, rendered, reparsed, tree, words, phrase, normalized,
                 valid, upgraded, upgradedTwice, callVars, concVars, stepVars>>

NextNormalize ==
  \/ CallNormalize
  \/ CallValidLicense
  \/ CallUpgradeGPL
  \/ CallUpgradeGPLAgain
  \/ CallNormalizeLicenseWords

SpecNormalize == InitNormalize /\ [][NextNormalize]_vars

(***************************************************************************)
(* SpecTokens: free sequences of tokens, well-formed or not, and the empty *)
(* and blank inputs, handed to Parse and ParseStrict.                      *)
(***************************************************************************)
MaxTokens == 4

\* the tokens a caller separates by spaces
Tokens == {"mit", "unknown", "llvm-exception", "(", ")", "+", "AND", "OR", "WITH"}

InitTokens ==
  /\ \E n \in 0..MaxTokens :
       \E toks \in [1..n -> Tokens] :
         /\ operands = toks
         /\ input \in (IF n = 0 THEN {"", " ", " \t"} ELSE {Join(toks, " ")})
  /\ operators = << >>
  /\ pc = "start"
  /\ api = "none"
  /\ result = NoResult
  /\ rendered = ""
  /\ reparsed = NoResult
  /\ TreeIdle
  /\ NormIdle
  /\ CallIdle
  /\ ConcIdle
  /\ StepIdle

NextTokens == CallParse \/ CallParseStrict

SpecTokens == InitTokens /\ [][NextTokens]_vars

(***************************************************************************)
(* SpecRef: license references, alone and as an operand of AND and OR,     *)
(* handed to Parse and ParseStrict and rendered again.                     *)
(***************************************************************************)
\* single words that start with LicenseRef- or DocumentRef- in some casing
RefWords ==
  {"LicenseRef-custom", "licenseref-custom", "LICENSEREF-X1", "LicenseRef-a.b",
   "LicenseRef-", "DocumentRef-doc:LicenseRef-custom",
   "documentref-doc:licenseref-custom", "DocumentRef-doc:LicenseRef-",
   "DocumentRef-doc", "DocumentRef-:LicenseRef-custom"}

InitRef ==
  /\ \E w \in RefWords :
       \/ operands = <<w>> /\ operators = << >>
       \/ \E op \in {"AND", "OR"} :
            /\ operators = <<op>>
            /\ operands = <<w, "mit">> \/ operands = <<"mit", w>>
  /\ input = Join(Interleave(operands, operators), " ")
  /\ pc = "start"
  /\ api = "none"
  /\ result = NoResult
  /\ rendered = ""
  /\ reparsed = NoResult
  /\ TreeIdle
  /\ NormIdle
  /\ CallIdle
  /\ ConcIdle
  /\ StepIdle

SpecRef == InitRef /\ [][Next]_vars

(***************************************************************************)
(* SpecExpression: expressions of formal and informal names handed to      *)
(* NormalizeExpression and HasCopyleft.                                    *)
(***************************************************************************)
ExprOperands ==
  {"mit", "gpl-2.0", "apache-2.0", "Apache 2", "GPL v3", "MPL-2.0", "LicenseRef-custom", "NONE"}

InitExpression ==
  /\ \E n \in 1..MaxOperands :
       \E xs \in [1..n -> ExprOperands], ops \in [1..(n - 1) -> {"AND", "OR"}] :
         /\ operands = xs
         /\ operators = ops
         /\ input = Join(Interleave(xs, ops), " ")
  /\ pc = "start"
  /\ api = "none"
  /\ result = NoResult
  /\ rendered = ""
  /\ reparsed = NoResult
  /\ TreeIdle
  /\ NormIdle
  /\ CallIdle
  /\ ConcIdle
  /\ StepIdle

CallNormalizeExpression ==
  /\ pc = "start"
  /\ api' = "NormalizeExpression"
  /\ expression' = NormalizeExpression(input)
  /\ pc' = "normalizedExpression"
  /\ UNCHANGED <<operands, operators, input, result, rendered, reparsed, tree, normVars,
                 copyleft, concVars, stepVars>>

CallHasCopyleft ==
  /\ pc = "start"
  /\ api' = "HasCopyleft"
  /\ copyleft' = HasCopyleft(input)
  /\ pc' = "copyleft"
  /\ UNCHANGED <<operands, operators, input, result, rendered, reparsed, tree, normVars,
                 expression, concVars, stepVars>>

NextExpression == CallNormalizeExpression \/ CallHasCopyleft

SpecExpression == InitExpression /\ [][NextExpression]_vars

(***************************************************************************)
(* SpecConcurrent: goroutines that call the package at the same time.      *)
(* Every lookup goes through initMaps or initCategoryMap, whose body runs  *)
(* under a sync.Once: Do loads the done flag; if it is not set, doSlow     *)
(* takes the mutex of the Once, runs the body if done is still not set,    *)
(* stores done and releases the mutex.  The tables transforms,             *)
(* transpositions and lastResorts are written by the package's init()      *)
(* alone, which has returned before any goroutine runs.                    *)
(***************************************************************************)
NumThreads == 3

Threads == 1..NumThreads

Calls == {"Normalize", "Parse", "ParseStrict", "ValidLicense", "LicenseCategory"}

Onces == {"initOnce", "categoryOnce"}

\* the Once that guards the maps a call reads
OnceOf(call) == IF call = "LicenseCategory" THEN "categoryOnce" ELSE "initOnce"

\* the assignments of a body that make its maps: licenseMap, deprecatedMap
\* and exceptionMap in initMaps, categoryMap in initCategoryMap
Writes(o) == IF o = "initOnce" THEN 3 ELSE 1

\* the lookups a call makes, each after a call of initMaps or initCategoryMap
Lookups(call) == IF call \in {"Normalize", "Parse"} THEN 2 ELSE 1

\* what the call returns when nothing else runs
SingleThreaded(call) ==
  CASE call = "Normalize" -> Normalize("Apache 2")
    [] call = "Parse" -> Parse("mit OR Apache 2")
    [] call = "ParseStrict" -> ParseStrict("GPL-2.0+ AND mit")
    [] call = "ValidLicense" -> ValidLicense("mit")
    [] call = "LicenseCategory" -> LicenseCategory("GPL-3.0-only")

\* what a call can return whose lookup read maps that were complete or not:
\* a read of a map that is being written, or was never made, is a data race
Outcomes(call, complete) ==
  IF complete THEN {[fault |-> FALSE, value |-> SingleThreaded(call)]}
  ELSE {[fault |-> f, value |-> SingleThreaded(call)] : f \in BOOLEAN}

\* a mutex that never blocks
mayLockAlways(holder) == TRUE

\* sync.Mutex.Lock of the Once returns only when no one holds the mutex
mayLock(holder) == holder = 0

\* doSlow once it holds the mutex: "if o.done.Load() == 0 { defer
\* o.done.Store(1); f() }"
afterLock(done) == IF done THEN "unlock" ELSE "body"

\* Do: "if o.done.Load() == 0 { o.doSlow(f) }"
fastPath(done) == IF done THEN "lookup" ELSE "doSlow"

NoOutcome == [fault |-> FALSE, value |-> ""]

InitConcurrent ==
  /\ thread = [p \in Threads |-> [pc |-> "idle", call |-> "", left |-> 0, step |-> 0,
                                  res |-> NoOutcome]]
  /\ once = [o \in Onces |-> [done |-> FALSE, holder |-> 0, runs |-> 0]]
  /\ stage = [o \in Onces |-> 0]
  /\ raced = FALSE
  /\ lateWrite = FALSE
  /\ StepIdle
  /\ pc = "concurrent"
  /\ rendered = ""
  /\ reparsed = NoResult
  /\ ExprIdle
  /\ TreeIdle
  /\ NormIdle
  /\ CallIdle

otherVars == <<exprVars, pc, rendered, reparsed, tree, normVars, callVars, stepVars>>

\* a goroutine calls one of the functions
Begin(p) ==
  /\ thread[p].pc = "idle"
  /\ \E call \in Calls :
       thread' = [thread EXCEPT ![p] = [@ EXCEPT !.pc = "Do", !.call = call,
                                                 !.left = Lookups(call)]]
  /\ UNCHANGED <<once, stage, raced, lateWrite, otherVars>>

\* initMaps or initCategoryMap: Once.Do loads done
OnceDo(p) ==
  /\ thread[p].pc = "Do"
  /\ thread' = [thread EXCEPT ![p].pc = fastPath(once[OnceOf(thread[p].call)].done)]
  /\ UNCHANGED <<once, stage, raced, lateWrite, otherVars>>

\* doSlow: take the mutex, then look at done again
DoSlow(p) ==
  /\ thread[p].pc = "doSlow"
  /\ mayLock(once[OnceOf(thread[p].call)].holder)
  /\ once' = [once EXCEPT ![OnceOf(thread[p].call)] =
                [@ EXCEPT !.holder = p,
                          !.runs = IF once[OnceOf(thread[p].call)].done THEN @ ELSE @ + 1]]
  /\ thread' = [thread EXCEPT ![p] = [@ EXCEPT !.pc = afterLock(once[OnceOf(thread[p].call)].done),
                                                 !.step = 0]]
  /\ UNCHANGED <<stage, raced, lateWrite, otherVars>>

\* one assignment of the body: the maps hold what this run has made so far
Body(p) ==
  /\ thread[p].pc = "body"
  /\ thread[p].step < Writes(OnceOf(thread[p].call))
  /\ thread' = [thread EXCEPT ![p].step = @ + 1]
  /\ stage' = [stage EXCEPT ![OnceOf(thread[p].call)] = thread[p].step + 1]
  /\ lateWrite' = (lateWrite \/ once[OnceOf(thread[p].call)].done)
  /\ UNCHANGED <<once, raced, otherVars>>

\* the body returns and the deferred o.done.Store(1) runs
BodyReturn(p) ==
  /\ thread[p].pc = "body"
  /\ thread[p].step = Writes(OnceOf(thread[p].call))
  /\ once' = [once EXCEPT ![OnceOf(thread[p].call)].done = TRUE]
  /\ thread' = [thread EXCEPT ![p].pc = "unlock"]
  /\ UNCHANGED <<stage, raced, lateWrite, otherVars>>

\* the deferred o.m.Unlock()
Unlock(p) ==
  /\ thread[p].pc = "unlock"
  /\ once' = [once EXCEPT ![OnceOf(thread[p].call)].holder = 0]
  /\ thread' = [thread EXCEPT ![p].pc = "lookup"]
  /\ UNCHANGED <<stage, raced, lateWrite, otherVars>>

\* the read of the map after initMaps or initCategoryMap has returned; after
\* the last lookup the call returns
Lookup(p) ==
  /\ thread[p].pc = "lookup"
  /\ raced' = (raced \/ stage[OnceOf(thread[p].call)] # Writes(OnceOf(thread[p].call)))
  /\ \E r \in Outcomes(thread[p].call,
                       stage[OnceOf(thread[p].call)] = Writes(OnceOf(thread[p].call))) :
       thread' = [thread EXCEPT ![p] =
                    [@ EXCEPT !.left = @ - 1,
                              !.res = IF r.fault \/ @.fault THEN [r EXCEPT !.fault = TRUE] ELSE r,
                              !.pc = IF thread[p].left = 1 THEN "returned" ELSE "Do"]]
  /\ UNCHANGED <<once, stage, lateWrite, otherVars>>

NextConcurrent ==
  \E p \in Threads :
    \/ Begin(p)
    \/ OnceDo(p)
    \/ DoSlow(p)
    \/ Body(p)
    \/ BodyReturn(p)
    \/ Unlock(p)
    \/ Lookup(p)

SpecConcurrent == InitConcurrent /\ [][NextConcurrent]_vars

(***************************************************************************)
(* SpecWith: expressions with a WITH operator, the words after it chosen   *)
(* freely, handed to Parse and to the pre-processor alone.                 *)
(***************************************************************************)
\* the tokens before WITH
WithHeads == {<<"mit">>, <<"GPL", "v3">>, <<"unknown">>, <<"(", "mit">>}

\* the words (and "+" atoms) a caller writes after WITH
WithWords ==
  {"llvm-exception", "LLVM", "exception", "Classpath-exception-2.0", "mit", "Apache", "2", "+"}

\* the tokens after those words
WithTails ==
  {<< >>, <<"AND", "mit">>, <<"or", "Apache", "2">>, <<")">>, <<"(", "mit", ")">>,
   <<"with", "GCC-exception-3.1">>}

MaxWithWords == 2

InitWith ==
  /\ \E head \in WithHeads, tail \in WithTails, n \in 0..MaxWithWords :
       \E ws \in [1..n -> WithWords] :
         operands = head \o <<"WITH">> \o ws \o tail
  /\ operators = << >>
  /\ input = Join(operands, " ")
  /\ pc = "start"
  /\ api = "none"
  /\ result = NoResult
  /\ rendered = ""
  /\ reparsed = NoResult
  /\ TreeIdle
  /\ NormIdle
  /\ CallIdle
  /\ ConcIdle
  /\ StepIdle

\* Parse hands the trimmed input to normalizeExpressionString
CallNormalizeExpressionString ==
  /\ pc = "start"
  /\ api' = "normalizeExpressionString"
  /\ emitted' = normalizeExpressionString(TrimSpace(input))
  /\ pc' = "preprocessed"
  /\ UNCHANGED <<operands, operators, input, result, rendered, reparsed, tree, words,
                 phrase, normalized, valid, upgraded, upgradedTwice, callVars, concVars, stepVars>>

NextWith == CallParse \/ CallNormalizeExpressionString

SpecWith == InitWith /\ [][NextWith]_vars

(***************************************************************************)
(* SpecLexer: a text made of pieces written one after the other with       *)
(* nothing between them, read token by token with lexer.next until the     *)
(* end of the text.                                                        *)
(***************************************************************************)
MaxPieces == 3

\* parentheses, "+", white space, keywords in three casings, words, license
\* references and a character that is none of these
Pieces ==
  {"(", ")", "+", " ", "\t", "and", "OR", "With", "mit", "an", "LicenseRef-a",
   "documentref-d", "/"}

InitText(ps) ==
  /\ source = Join(ps, "")
  /\ input = source
  /\ operands = ps
  /\ operators = << >>
  /\ pc = "lexing"
  /\ api = "none"
  /\ result = NoResult
  /\ rendered = ""
  /\ reparsed = NoResult
  /\ cursor = 1
  /\ current = [typ |-> "", value |-> ""]
  /\ tokens = << >>
  /\ stack = << >>
  /\ ret = [expr |-> Nil, err |-> NoErr]
  /\ offset = 1
  /\ results = << >>
  /\ matches = << >>
  /\ TreeIdle
  /\ NormIdle
  /\ CallIdle
  /\ ConcIdle

InitLexer == \E n \in 1..MaxPieces : \E ps \in [1..n -> Pieces] : InitText(ps)

\* what the caller of lexer.next does with n, the token, position and error
\* it returned
lexed(n) ==
  /\ cursor' = n.pos
  /\ IF n.err # NoErr THEN pc' = "failed" /\ tokens' = tokens
     ELSE IF n.tok.typ = "tokenEOF" THEN pc' = "lexed" /\ tokens' = tokens
     ELSE pc' = pc /\ tokens' = Append(tokens, n.tok)
  /\ UNCHANGED <<exprVars, rendered, reparsed, tree, normVars, callVars, concVars,
                 current, source, stack, ret, offset, results, matches>>

\* one call of lexer.next
LexNext ==
  /\ pc = "lexing"
  /\ \E n \in {next(source, cursor)} : lexed(n)

NextLexer == LexNext

SpecLexer == InitLexer /\ [][NextLexer]_vars

(***************************************************************************)
(* SpecTermination: one call followed statement by statement.  The text is *)
(* read to its end with lexer.next; its words go through the loop of       *)
(* normalizeLicenseWords, one outer iteration a step; then Parse or        *)
(* ParseStrict parses it, every call of and return to parseExpression,     *)
(* parseAnd, parseWith and parseAtom a step.  stack holds the calls in     *)
(* progress, the innermost last; a frame is the function, the place it has *)
(* reached and its local variable left.  What the inner loop of            *)
(* normalizeLicenseWords finds from an offset depends on the words alone   *)
(* and is held in matches from the start.  A goroutine that has a next     *)
(* statement executes it, hence the weak fairness of the steps.            *)
(***************************************************************************)
StepOperands ==
  {"mit", "mit+", "Apache 2", "unknown", "(mit)", "((mit))", "(mit OR (mit AND mit))",
   "(mit", "mit)", "", "mit mit", "GPL-2.0 WITH llvm-exception"}

MaxStepOperands == 2

\* the words of the tokens toks of tokenizeForNormalization
wordsOf(toks) ==
  [k \in DOMAIN SelectSeq(toks, LAMBDA t : ~t.isOp /\ ~t.isParen /\ ~t.isPlus) |->
     SelectSeq(toks, LAMBDA t : ~t.isOp /\ ~t.isParen /\ ~t.isPlus)[k].value]

InitTermination ==
  /\ \E n \in 1..MaxStepOperands :
       \E xs \in [1..n -> StepOperands], ops \in [1..(n - 1) -> Operators] :
         /\ operands = xs
         /\ operators = ops
         /\ input = Join(Interleave(xs, ops), " ")
  /\ source = input
  /\ words = wordsOf(tokenizeForNormalization(input))
  /\ phrase = Join(words, " ")
  /\ pc = "lexing"
  /\ api = "none"
  /\ result = NoResult
  /\ rendered = ""
  /\ reparsed = NoResult
  /\ normalized = NoNormalized
  /\ valid = FALSE
  /\ upgraded = ""
  /\ upgradedTwice = ""
  /\ emitted = NoEmitted
  /\ cursor = 1
  /\ current = [typ |-> "", value |-> ""]
  /\ tokens = << >>
  /\ stack = << >>
  /\ ret = [expr |-> Nil, err |-> NoErr]
  /\ offset = 1
  /\ results = << >>
  /\ matches = [i \in DOMAIN words |-> matchSpan(words, i, Len(words))]
  /\ TreeIdle
  /\ CallIdle
  /\ ConcIdle

parserVars == <<cursor, current, tokens, source, stack, ret>>

\* normalizeLicenseWords up to its loop: the test for no words, the special
\* values and references, "i := 0"
enterLoop(r) ==
  /\ IF Len(words) = 1 /\ r.err = NoErr
     THEN emitted' = r /\ pc' = "spanned"
     ELSE IF Len(words) = 0
     THEN emitted' = [out |-> "", err |-> Err("ErrMissingOperand", "")] /\ pc' = "spanned"
     ELSE emitted' = emitted /\ pc' = "spans"
  /\ offset' = 1
  /\ results' = << >>

\* what passThrough returns for a single word it passes through, an error
\* otherwise
passedThrough(upper) ==
  IF Len(words) = 1 /\ (\/ upper \in {"NONE", "NOASSERTION"}
                        \/ HasPrefix(upper, "LICENSEREF-")
                        \/ HasPrefix(upper, "DOCUMENTREF-"))
  THEN passThrough(words, upper)
  ELSE [out |-> "", err |-> Err("none", "")]

EnterNormalizeLicenseWords ==
  /\ pc = "lexed"
  /\ \E r \in {passedThrough(IF words = << >> THEN "" ELSE ToUpper(words[1]))} : enterLoop(r)
  /\ UNCHANGED <<exprVars, rendered, reparsed, tree, words, phrase, normalized, valid,
                 upgraded, upgradedTwice, callVars, concVars, parserVars, matches>>

\* "i = end" once the span words[i:end] has matched
sameOffset(i, m) == i

nextOffset(i, m) == m.next

\* one iteration of "for i < len(words)", m being what the inner loop found,
\* or the return after the loop
spanStep(m) ==
  IF offset > Len(words)
  THEN /\ emitted' = [out |-> Join(results, " "), err |-> NoErr]
       /\ pc' = "spanned"
       /\ UNCHANGED <<offset, results>>
  ELSE IF ~m.matched
  THEN /\ emitted' = [out |-> "", err |-> Err("ErrInvalidLicenseID", words[offset])]
       /\ pc' = "spanned"
       /\ UNCHANGED <<offset, results>>
  ELSE /\ offset' = nextOffset(offset, m)
       /\ results' = Append(results, m.id)
       /\ UNCHANGED <<emitted, pc>>

SpanStep ==
  /\ pc = "spans"
  /\ spanStep(IF offset \in DOMAIN matches THEN matches[offset]
              ELSE [matched |-> FALSE, id |-> "", next |-> offset])
  /\ UNCHANGED <<exprVars, rendered, reparsed, tree, words, phrase, normalized, valid,
                 upgraded, upgradedTwice, callVars, concVars, parserVars, matches>>

Frame(fn, at, left) == [fn |-> fn, at |-> at, left |-> left]

Top == stack[Len(stack)]

Pop == SubSeq(stack, 1, Len(stack) - 1)

\* the parser that the functions called see
Parser == [pos |-> cursor, current |-> current, err |-> NoErr]

\* the tokens that lexer.next returns from position pos on, tokenEOF left out
RECURSIVE returnedFrom(_, _)
returnedAfter(txt, n) ==
  IF n.err # NoErr \/ n.tok.typ = "tokenEOF" THEN << >>
  ELSE <<n.tok>> \o returnedFrom(txt, n.pos)

returnedFrom(txt, pos) == CHOOSE toks \in {returnedAfter(txt, n) : n \in {next(txt, pos)}} : TRUE

\* those of them that it returns before it reaches position to
returnedUntil(all, rest) == SubSeq(all, 1, Len(all) - Len(rest))

returnedBetween(pos, to) ==
  returnedUntil(returnedFrom(source, pos), returnedFrom(source, to))

\* "return": r holds the expression, the error and the parser left behind
\* by the calls of p.advance() made
Return(r) ==
  /\ ret' = [expr |-> r.expr, err |-> r.err]
  /\ cursor' = r.p.pos
  /\ current' = r.p.current
  /\ tokens' = tokens \o returnedBetween(cursor, r.p.pos)
  /\ stack' = Pop

\* the calling function goes to the place at with the value left and calls fn
CallFrom(at, left, fn) ==
  stack' = Append([stack EXCEPT ![Len(stack)] = Frame(Top.fn, at, left)],
                  Frame(fn, "entry", Nil))

\* p.advance(), p being the parser after it
Advanced(p) ==
  /\ cursor' = p.pos
  /\ current' = p.current
  /\ tokens' = IF p.current.typ = "tokenEOF" THEN tokens ELSE Append(tokens, p.current)

\* newParser and the call of parseExpression, p being the parser made
parserMade(p, txt, r) ==
  IF r.err # NoErr
  THEN /\ result' = r
       /\ pc' = "done"
       /\ UNCHANGED parserVars
  ELSE /\ source' = txt
       /\ cursor' = p.pos
       /\ current' = p.current
       /\ tokens' = IF p.current.typ = "tokenEOF" THEN << >> ELSE <<p.current>>
       /\ stack' = <<Frame("parseExpression", "entry", Nil)>>
       /\ pc' = "parsing"
       /\ UNCHANGED <<result, ret>>

\* Parse and ParseStrict as far as the call of parseExpression, n being what
\* normalizeExpressionString returned
parseFrom(trimmed, n) ==
  IF trimmed = ""
  THEN parserMade(Parser, "", [expr |-> Nil, err |-> Err("ErrEmptyExpression", "")])
  ELSE IF n.err # NoErr THEN parserMade(Parser, "", [expr |-> Nil, err |-> n.err])
  ELSE \E p \in {newParser(n.out)} : parserMade(p, n.out, [expr |-> Nil, err |-> p.err])

EnterParse ==
  /\ pc = "spanned"
  /\ api' = "Parse"
  /\ \E trimmed \in {TrimSpace(input)} :
       \E n \in {normalizeExpressionString(trimmed)} : parseFrom(trimmed, n)
  /\ UNCHANGED <<operands, operators, input, rendered, reparsed, tree, normVars, callVars,
                 concVars, offset, results, matches>>

EnterParseStrict ==
  /\ pc = "spanned"
  /\ api' = "ParseStrict"
  /\ \E trimmed \in {TrimSpace(input)} : parseFrom(trimmed, [out |-> trimmed, err |-> NoErr])
  /\ UNCHANGED <<operands, operators, input, rendered, reparsed, tree, normVars, callVars,
                 concVars, offset, results, matches>>

\* "left = &OrExpression{Left: left, Right: right}" in parseExpression,
\* "left = &AndExpression{...}" in parseAnd
joined(fn, left, right) ==
  IF fn = "parseExpression" THEN OrExpression(left, right) ELSE AndExpression(left, right)

\* parseExpression (operator tokenOr, operand parseAnd) and parseAnd
\* (operator tokenAnd, operand parseWith) at the place the frame has reached
loopStep(operator, operand, p) ==
  CASE Top.at = "entry" ->
         CallFrom("first", Nil, operand) /\ UNCHANGED <<cursor, current, tokens, ret>>
    [] Top.at \in {"first", "right"} /\ ret.err # NoErr ->
         stack' = Pop /\ UNCHANGED <<cursor, current, tokens, ret>>
    [] Top.at = "first" /\ ret.err = NoErr ->
         /\ stack' = [stack EXCEPT ![Len(stack)] = Frame(Top.fn, "loop", ret.expr)]
         /\ UNCHANGED <<cursor, current, tokens, ret>>
    [] Top.at = "right" /\ ret.err = NoErr ->
         /\ stack' = [stack EXCEPT ![Len(stack)] = Frame(Top.fn, "loop", joined(Top.fn, Top.left, ret.expr))]
         /\ UNCHANGED <<cursor, current, tokens, ret>>
    [] Top.at = "loop" /\ current.typ # operator ->
         Return([expr |-> Top.left, err |-> NoErr, p |-> Parser])
    [] Top.at = "loop" /\ current.typ = operator /\ p.err # NoErr ->
         Return(Failed(p.err, p))
    [] Top.at = "loop" /\ current.typ = operator /\ p.err = NoErr ->
         Advanced(p) /\ CallFrom("right", Top.left, operand) /\ ret' = ret

parserFrame == UNCHANGED <<exprVars, pc, rendered, reparsed, tree, normVars, callVars,
                           concVars, source, offset, results, matches>>

ParseExpressionStep ==
  /\ pc = "parsing"
  /\ stack # << >>
  /\ Top.fn = "parseExpression"
  /\ \E p \in {advance(source, Parser)} : loopStep("tokenOr", "parseAnd", p)
  /\ parserFrame

ParseAndStep ==
  /\ pc = "parsing"
  /\ stack # << >>
  /\ Top.fn = "parseAnd"
  /\ \E p \in {advance(source, Parser)} : loopStep("tokenAnd", "parseWith", p)
  /\ parserFrame

\* parseWith: the call of parseAtom, and all that follows its return
ParseWithStep ==
  /\ pc = "parsing"
  /\ stack # << >>
  /\ Top.fn = "parseWith"
  /\ IF Top.at = "entry"
     THEN CallFrom("atom", Nil, "parseAtom") /\ UNCHANGED <<cursor, current, tokens, ret>>
     ELSE \E r \in {withAfter(source, [expr |-> ret.expr, err |-> ret.err, p |-> Parser])} :
            Return(r)
  /\ parserFrame

\* parseAtom at "(": the advance and the call of parseExpression
atomOpen(p) ==
  IF p.err # NoErr THEN Return(Failed(p.err, p))
  ELSE Advanced(p) /\ CallFrom("inner", Nil, "parseExpression") /\ ret' = ret

\* parseAtom: the switch, the call of parseExpression after "(", and what
\* follows its return
ParseAtomStep ==
  /\ pc = "parsing"
  /\ stack # << >>
  /\ Top.fn = "parseAtom"
  /\ IF Top.at = "inner"
     THEN \E r \in {closeParen(source, [expr |-> ret.expr, err |-> ret.err, p |-> Parser])} :
            Return(r)
     ELSE IF current.typ = "tokenOpenParen"
     THEN \E p \in {advance(source, Parser)} : atomOpen(p)
     ELSE \E r \in {parseAtom(source, Parser)} : Return(r)
  /\ parserFrame

\* parseExpression has returned to Parse or ParseStrict
ParseReturn ==
  /\ pc = "parsing"
  /\ stack = << >>
  /\ result' = checkEOF([expr |-> ret.expr, err |-> ret.err, p |-> Parser])
  /\ pc' = "done"
  /\ UNCHANGED <<operands, operators, input, api, rendered, reparsed, tree, normVars,
                 callVars, concVars, stepVars>>

NextTermination ==
  \/ LexNext
  \/ EnterNormalizeLicenseWords
  \/ SpanStep
  \/ EnterParseStrict
  \/ EnterParse
  \/ ParseExpressionStep
  \/ ParseAndStep
  \/ ParseWithStep
  \/ ParseAtomStep
  \/ ParseReturn

SpecTermination == InitTermination /\ [][NextTermination]_vars /\ WF_vars(NextTermination)

(***************************************************************************)
(* SpecPreprocess: a text made of parentheses, "+", keywords with a space  *)
(* on either side and words, written one after the other with nothing     *)
(* between them, handed to normalizeExpressionString as Parse does.        *)
(***************************************************************************)
PreprocessPieces ==
  {"(", ")", "+", " and ", " OR ", " with ", "mit", "Apache 2", "llvm-exception"}

MaxPreprocessPieces == 4

InitPreprocess ==
  /\ \E n \in 0..MaxPreprocessPieces : \E ps \in [1..n -> PreprocessPieces] :
       /\ operands = ps
       /\ input = Join(ps, "")
  /\ operators = << >>
  /\ pc = "start"
  /\ api = "none"
  /\ result = NoResult
  /\ rendered = ""
  /\ reparsed = NoResult
  /\ TreeIdle
  /\ NormIdle
  /\ CallIdle
  /\ ConcIdle
  /\ StepIdle

NextPreprocess == CallNormalizeExpressionString

SpecPreprocess == InitPreprocess /\ [][NextPreprocess]_vars

(***************************************************************************)
(* SpecLastResorts: phrases handed to tryLastResorts; upgraded holds what  *)
(* it returned.                                                            *)
(***************************************************************************)
LastResortWords ==
  {"gnu", "Lesser", "GPL", "lgpl", "LGPLv2.1", "lgpl2.1+", "gplv2", "Affero", "agpl",
   "eclipse", "Public", "mit", "unknown", "domain"}

MaxLastResortWords == 3

InitLastResorts ==
  /\ \E n \in 1..MaxLastResortWords :
       words \in [1..n -> LastResortWords] /\ phrase = Join(words, " ")
  /\ pc = "phrase"
  /\ normalized = NoNormalized
  /\ valid = FALSE
  /\ upgraded = ""
  /\ upgradedTwice = ""
  /\ emitted = NoEmitted
  /\ rendered = ""
  /\ reparsed = NoResult
  /\ ExprIdle
  /\ TreeIdle
  /\ CallIdle
  /\ ConcIdle
  /\ StepIdle

CallTryLastResorts ==
  /\ pc = "phrase"
  /\ upgraded' = tryLastResorts(phrase)
  /\ pc' = "lastResort"
  /\ UNCHANGED <<exprVars, rendered, reparsed, tree, words, phrase, normalized,
                 valid, upgradedTwice, emitted, callVars, concVars, stepVars>>

NextLastResorts == CallTryLastResorts

SpecLastResorts == InitLastResorts /\ [][NextLastResorts]_vars

(***************************************************************************)
(* SpecPhrases: one or two groups of tokens, among them words that         *)
(* normalize only one by one, joined by an operator, the tokens separated  *)
(* by spaces, handed to Parse.                                             *)
(***************************************************************************)
PhraseGroups ==
  {<<"mit">>, <<"PostgreSQL", "BSL-1.0">>, <<"(", "PostgreSQL", "BSL-1.0", ")">>,
   <<"unknown">>, <<"BSL-1.0">>, <<"(", "mit", ")">>, <<"llvm-exception">>,
   <<"LicenseRef-a">>, <<"mit", "+">>, <<"Apache", "2">>, <<"NONE">>,
   <<"(", "mit", "AND", "PostgreSQL", "BSL-1.0", ")">>}

MaxPhraseGroups == 2

InitPhrases ==
  /\ \/ \E g \in PhraseGroups : operands = g
     \/ \E n \in 2..MaxPhraseGroups : \E gs \in [1..n -> PhraseGroups], op \in Operators :
          operands = gs[1] \o <<op>> \o gs[n]
  /\ input = Join(operands, " ")
  /\ operators = << >>
  /\ pc = "start"
  /\ api = "none"
  /\ result = NoResult
  /\ rendered = ""
  /\ reparsed = NoResult
  /\ TreeIdle
  /\ NormIdle
  /\ CallIdle
  /\ ConcIdle
  /\ StepIdle

NextPhrases == CallParse

SpecPhrases == InitPhrases /\ [][NextPhrases]_vars

(***************************************************************************)
(* Properties of Parse, ParseStrict and the renderer, checked under Spec.  *)
(***************************************************************************)
\* what the function under call returns for text
Call(text) == IF api = "Parse" THEN Parse(text) ELSE ParseStrict(text)

\* the leaf nodes of a tree, left to right
RECURSIVE Leaves(_)
Leaves(e) ==
  IF e.kind \in {"AndExpression", "OrExpression"} THEN Leaves(e.Left) \o Leaves(e.Right)
  ELSE IF e.kind = "nil" THEN << >>
  ELSE <<e>>

\* the License nodes of a tree, left to right
LicenseNodes(e) == SelectSeq(Leaves(e), LAMBDA l : l.kind = "License")

\* operand i of the input follows WITH
IsException(i) == i > 1 /\ operators[i - 1] = "WITH"

\* operand i of the input parsed as an expression of its own
Leaf(i) == Call(operands[i]).expr

\* every operand stands where the grammar allows it: an exception identifier
\* after WITH, an expression that parses on its own elsewhere, and before
\* WITH a license that is not in parentheses
WellFormed ==
  \A i \in 1..Len(operands) :
    IF IsException(i)
    THEN /\ lookupException(operands[i]) # ""
         /\ i < Len(operands) => operators[i] # "WITH"
    ELSE /\ Call(operands[i]).err = NoErr
         /\ (i < Len(operands) /\ operators[i] = "WITH") =>
              /\ Leaf(i).kind = "License"
              /\ Leaf(i).Exception = ""
              /\ ~HasPrefix(operands[i], "(")

\* operand i with the exception that follows it, if one does
Atom(i) ==
  IF i < Len(operands) /\ operators[i] = "WITH"
  THEN [Leaf(i) EXCEPT !.Exception = lookupException(operands[i + 1])]
  ELSE Leaf(i)

\* the operand before operand i that is no exception
PrevAtom(i) == IF IsException(i - 1) THEN i - 2 ELSE i - 1

\* the operands joined by AND that end with operand i, nested to the left
RECURSIVE AndTree(_)
AndTree(i) ==
  IF i = 1 \/ operators[i - 1] = "OR" THEN Atom(i)
  ELSE AndExpression(AndTree(PrevAtom(i)), Atom(i))

\* the first operand of the run of operands joined by AND that holds operand i
RECURSIVE ChainStart(_)
ChainStart(i) == IF i = 1 \/ operators[i - 1] = "OR" THEN i ELSE ChainStart(PrevAtom(i))

\* the runs joined by OR that end with the run of operand i, nested to the left
RECURSIVE OrTree(_)
OrTree(i) ==
  IF ChainStart(i) = 1 THEN AndTree(i)
  ELSE OrExpression(OrTree(PrevAtom(ChainStart(i))), AndTree(i))

\* the tree the grammar gives the input: WITH first, then AND, then OR
Expected == OrTree(IF IsException(Len(operands)) THEN Len(operands) - 1 ELSE Len(operands))

\* C1: in Parse and in ParseStrict WITH binds tighter than AND, AND tighter
\* than OR, and operators of one level associate to the left: an input whose
\* operands are well formed parses to the tree that groups them so, and
\* 'a1 OR a2 AND a3' renders as 'a1 OR (a2 AND a3)'.
C1_Precedence ==
  /\ (pc # "start" /\ WellFormed) => (result.err = NoErr /\ result.expr = Expected)
  /\ (/\ pc = "rendered"
      /\ WellFormed
      /\ operators = <<"OR", "AND">>
      /\ \A i \in 1..3 : Leaf(i).kind = "License" => Leaf(i).Exception = "")
     => rendered = String(Leaf(1)) \o " OR (" \o String(Leaf(2)) \o " AND "
                     \o String(Leaf(3)) \o ")"

C1_Witness ==
  /\ pc = "rendered"
  /\ api = "Parse"
  /\ operands = <<"mit", "GPL-2.0", "Apache 2">>
  /\ operators = <<"OR", "AND">>
  /\ result.expr = OrExpression(License("MIT", FALSE, ""),
                     AndExpression(License("GPL-2.0-only", FALSE, ""),
                                   License("Apache-2.0", FALSE, "")))
  /\ rendered = "MIT OR (GPL-2.0-only AND Apache-2.0)"

\* the round trip of C2 for the tree in result
RoundTrips == reparsed.err = NoErr /\ String(reparsed.expr) = rendered

\* C2 as stated: for every tree e that Parse or ParseStrict returns,
\* Parse(e.String()) succeeds and renders as e.String() again.
C2_AsStated == pc = "reparsed" => RoundTrips

\* a License node that Normalize leaves as it is, with its "+" if it has one
Upgraded(l) ==
  /\ upgradeGPL(l.ID) = l.ID
  /\ l.Plus => upgradeGPL(l.ID \o "+") = l.ID \o "+"

\* C2, amended: the rendering of a tree round-trips through Parse if Parse
\* returned the tree, or ParseStrict did and no License in it is a deprecated
\* identifier that upgradeGPL replaces.
C2_RoundTrip ==
  (/\ pc = "reparsed"
   /\ \/ api = "Parse"
      \/ \A k \in DOMAIN LicenseNodes(result.expr) : Upgraded(LicenseNodes(result.expr)[k]))
  => RoundTrips

C2_Witness ==
  /\ pc = "reparsed"
  /\ api = "ParseStrict"
  /\ operands = <<"mit", "mit+", "(mit WITH GCC-exception-3.1)">>
  /\ operators = <<"AND", "OR">>
  /\ rendered = "(MIT AND MIT+) OR (MIT WITH GCC-exception-3.1)"
  /\ RoundTrips

\* a NONE or NOASSERTION below an AND or an OR
SpecialBelow(e) ==
  /\ e.kind \in {"AndExpression", "OrExpression"}
  /\ \E k \in DOMAIN Leaves(e) : Leaves(e)[k].kind = "SpecialValue"

\* C4 as stated: a SpecialValue is never a child of an AndExpression or an
\* OrExpression of a returned tree, and every input that combines NONE or
\* NOASSERTION with another operand is rejected.
C4_AsStated ==
  pc # "start" =>
    /\ result.err = NoErr => ~SpecialBelow(result.expr)
    /\ (/\ Len(operands) > 1
        /\ \E i \in 1..Len(operands) : ToUpper(operands[i]) \in {"NONE", "NOASSERTION"})
       => result.err # NoErr

\* C5 as stated: a WITH that follows a sub-expression in parentheses is
\* rejected, also when the parentheses hold a single license.
C5_AsStated ==
  pc # "start" =>
    \A i \in 1..Len(operators) :
      (operators[i] = "WITH" /\ HasPrefix(operands[i], "(")) => result.err # NoErr

\* the identifiers of the vocabulary in their canonical spelling
Canonical == Range(licenses) \cup Range(deprecated)

\* C7: every License of a tree that Parse or ParseStrict returns has an ID in
\* the canonical spelling of the vocabulary, lookupLicense(ID) = ID, and an
\* Exception that is empty or a canonical exception identifier; Licenses() of
\* the tree holds only such identifiers and LicenseRef or DocumentRef literals.
C7_CanonicalNodes ==
  (pc # "start" /\ result.err = NoErr) =>
    /\ \A k \in DOMAIN LicenseNodes(result.expr) :
         /\ LicenseNodes(result.expr)[k].ID \in Canonical
         /\ lookupLicense(LicenseNodes(result.expr)[k].ID) = LicenseNodes(result.expr)[k].ID
         /\ \/ LicenseNodes(result.expr)[k].Exception = ""
            \/ /\ LicenseNodes(result.expr)[k].Exception \in Range(exceptions)
               /\ lookupException(LicenseNodes(result.expr)[k].Exception)
                    = LicenseNodes(result.expr)[k].Exception
    /\ \A k \in DOMAIN Licenses(result.expr) :
         \/ Licenses(result.expr)[k] \in Canonical
         \/ HasPrefix(Licenses(result.expr)[k], "LicenseRef-")
         \/ HasPrefix(Licenses(result.expr)[k], "DocumentRef-")

C7_Witness ==
  /\ pc = "returned"
  /\ api = "Parse"
  /\ operands = <<"Apache 2", "llvm-exception", "LicenseRef-custom">>
  /\ operators = <<"WITH", "OR">>
  /\ result.expr = OrExpression(License("Apache-2.0", FALSE, "LLVM-exception"),
                                LicenseRef("", "custom"))

\* the tokens the lexer makes of input from position pos on
RECURSIVE lexFrom(_, _, _)
lexStep(text, toks, n) ==
  IF n.err # NoErr \/ n.tok.typ = "tokenEOF" THEN toks
  ELSE lexFrom(text, n.pos, Append(toks, n.tok))

lexFrom(text, pos, toks) == lexStep(text, toks, next(text, pos))

\* the words of toks in operand position, and those that follow WITH
IsWord(toks, i) == toks[i].typ = "tokenLicense"

AfterWith(toks, i) == i > 1 /\ toks[i - 1].typ = "tokenWith"

IsSpecial(word) == ToUpper(word) \in {"NONE", "NOASSERTION"}

\* the license words of toks, left to right: the words in operand position
\* that are no special value
LicenseWords(toks) ==
  SelectSeq([i \in DOMAIN toks |->
               IF IsWord(toks, i) /\ ~AfterWith(toks, i) /\ ~IsSpecial(toks[i].value)
               THEN toks[i].value ELSE ""],
            LAMBDA w : w # "")

\* the words of the input are identifiers of the vocabulary, whatever their case
ExactWords(toks) ==
  \A i \in DOMAIN toks :
    IsWord(toks, i) =>
      IF AfterWith(toks, i) THEN ToLower(toks[i].value) \in {ToLower(x) : x \in Range(exceptions)}
      ELSE \/ IsSpecial(toks[i].value)
           \/ ToLower(toks[i].value) \in {ToLower(x) : x \in Canonical}

\* the License nodes of tree e carry the words ws, up to letter case
SameWords(e, ws) ==
  /\ Len(LicenseNodes(e)) = Len(ws)
  /\ \A k \in DOMAIN ws : ToLower(LicenseNodes(e)[k].ID) = ToLower(ws[k])

\* C10: ParseStrict does not normalize: it succeeds only if every operand word
\* is, whatever its case, an identifier of the vocabulary (or NONE,
\* NOASSERTION, a LicenseRef- or DocumentRef- word) and every word after WITH
\* an exception identifier; every License.ID of its result is the input word
\* up to case, deprecated identifiers included; and Valid(s) holds exactly
\* when ParseStrict(s) succeeds.
C10_StrictIsExact ==
  (pc # "start" /\ api = "ParseStrict") =>
    /\ result.err = NoErr =>
         /\ ExactWords(lexFrom(input, 1, << >>))
         /\ SameWords(result.expr, LicenseWords(lexFrom(input, 1, << >>)))
    /\ Valid(input) <=> result.err = NoErr

C10_Witness ==
  /\ pc = "returned"
  /\ api = "ParseStrict"
  /\ operands = <<"GPL-2.0", "mit">>
  /\ operators = <<"OR">>
  /\ result.expr = OrExpression(License("GPL-2.0", FALSE, ""), License("MIT", FALSE, ""))

(***************************************************************************)
(* Properties of the renderer on trees a caller builds, checked under      *)
(* SpecTree.                                                               *)
(***************************************************************************)
\* the grouping of a tree: its Licenses() at the leaves, and the operands of
\* every run of AND within AND and of OR within OR taken together
RECURSIVE Grouping(_)
RECURSIVE Flat(_, _)
Flat(e, kind) ==
  IF e.kind = kind THEN Flat(e.Left, kind) \o Flat(e.Right, kind) ELSE <<Grouping(e)>>

Grouping(e) ==
  IF e.kind \in {"AndExpression", "OrExpression"}
  THEN [kind |-> e.kind, operands |-> Flat(e, e.kind)]
  ELSE [kind |-> "leaf", operands |-> Licenses(e)]

\* the children that stand in parentheses: an OR below an AND, an AND
\* below an OR, a License with an exception below an OR
InParens(parent, child) ==
  \/ parent.kind = "AndExpression" /\ child.kind = "OrExpression"
  \/ parent.kind = "OrExpression" /\ child.kind = "AndExpression"
  \/ parent.kind = "OrExpression" /\ child.kind = "License" /\ child.Exception # ""

RECURSIVE Wrapped(_)
Wrapped(e) ==
  IF e.kind \in {"AndExpression", "OrExpression"}
  THEN (IF InParens(e, e.Left) THEN 1 ELSE 0) + (IF InParens(e, e.Right) THEN 1 ELSE 0)
         + Wrapped(e.Left) + Wrapped(e.Right)
  ELSE 0

Count(s, ch) == Cardinality({i \in 1..Len(s) : Ch(s, i) = ch})

\* the rendering of tree reads back as tree
Faithful ==
  /\ reparsed.err = NoErr
  /\ Licenses(reparsed.expr) = Licenses(tree)
  /\ Grouping(reparsed.expr) = Grouping(tree)
  /\ Count(rendered, "(") = Wrapped(tree)
  /\ Count(rendered, ")") = Wrapped(tree)

\* C3 as stated: for every tree of License, LicenseRef, AndExpression and
\* OrExpression nodes that hold vocabulary identifiers, ParseStrict of the
\* rendering succeeds with the same Licenses() and the same grouping up to
\* associativity, and parentheses stand exactly around the three kinds of child.
C3_AsStated == pc = "treeReparsed" => Faithful

\* C3, amended: the same, for trees whose License identifiers do not end in
\* "+" (the deprecated identifiers such as GPL-2.0+ render like an identifier
\* with its Plus flag set).
C3_Unambiguous ==
  (/\ pc = "treeReparsed"
   /\ \A k \in DOMAIN LicenseNodes(tree) : ~HasSuffix(LicenseNodes(tree)[k].ID, "+"))
  => Faithful

C3_Witness ==
  /\ pc = "treeReparsed"
  /\ tree = AndExpression(OrExpression(License("MIT", TRUE, ""),
                                       License("Apache-2.0", FALSE, "LLVM-exception")),
                          LicenseRef("doc", "custom"))
  /\ rendered = "(MIT+ OR (Apache-2.0 WITH LLVM-exception)) AND DocumentRef-doc:LicenseRef-custom"
  /\ Faithful

(***************************************************************************)
(* Properties of the normalizer, checked under SpecNormalize.              *)
(***************************************************************************)
\* C6 as stated: whenever Normalize returns no error, ValidLicense holds of
\* what it returns, whichever tier produced it.
C6_AsStated == pc = "validated" => valid

BareOnly == {"GPL-1.0", "GPL-2.0", "LGPL-1.0", "LGPL-2.0", "LGPL-2.1", "AGPL-1.0", "AGPL-2.0"}

BareOrLater == {"GPL-3.0", "LGPL-3.0", "AGPL-3.0"}

\* the mapping C8 states
StatedUpgrade(x) ==
  IF x \in BareOnly THEN x \o "-only"
  ELSE IF x \in BareOrLater THEN x \o "-or-later"
  ELSE IF HasSuffix(x, "+") /\ TrimSuffix(x, "+") \in BareOnly \cup BareOrLater
  THEN TrimSuffix(x, "+") \o "-or-later"
  ELSE x

\* C8 as stated: upgradeGPL appends -only to the seven bare identifiers,
\* -or-later to the three bare 3.0 identifiers, replaces the "+" of each of
\* the ten by -or-later, and returns every other string unchanged.
C8_AsStated == pc = "upgraded" => upgraded = StatedUpgrade(phrase)

\* the words of s that single spaces separate
RECURSIVE Fields(_)
FieldsAt(s, i) ==
  IF i = 0 THEN <<s>> ELSE <<SubSeq(s, 1, i - 1)>> \o Fields(From(s, i + 1))

Fields(s) == IF s = "" THEN << >> ELSE FieldsAt(s, Index(s, " "))

\* C9: upgradeGPL is idempotent, and what Normalize returns without error and
\* every identifier normalizeLicenseWords emits is a fixed point of it,
\* whichever tier made the match.
C9_UpgradeEverywhere ==
  /\ pc = "upgradedTwice" => upgradedTwice = upgraded
  /\ (pc = "normalized" /\ normalized.err = "nil") => upgradeGPL(normalized.id) = normalized.id
  /\ (pc = "emitted" /\ emitted.err = NoErr) =>
       \A k \in DOMAIN Fields(emitted.out) :
         upgradeGPL(Fields(emitted.out)[k]) = Fields(emitted.out)[k]

C9_Witness ==
  /\ pc = "normalized"
  /\ phrase = "GPL v3"
  /\ normalized = [id |-> "GPL-3.0-or-later", err |-> "nil"]

(***************************************************************************)
(* Parse against ParseStrict, checked under Spec.                          *)
(***************************************************************************)
\* the identifier of a License node with the "+" of its Plus flag
PlusID(l) == IF l.Plus THEN l.ID \o "+" ELSE l.ID

\* leaf b is leaf a but for the upgrade of a deprecated GPL-family identifier
SameLeaf(a, b) ==
  IF a.kind = "License"
  THEN /\ b.kind = "License"
       /\ PlusID(b) = upgradeGPL(PlusID(a))
       /\ b.Exception = a.Exception
  ELSE b = a

\* trees a and b nest their AND and OR nodes alike over leaves that agree
RECURSIVE SameShape(_, _)
SameShape(a, b) ==
  IF a.kind \in {"AndExpression", "OrExpression"}
  THEN /\ b.kind = a.kind
       /\ SameShape(a.Left, b.Left)
       /\ SameShape(a.Right, b.Right)
  ELSE SameLeaf(a, b)

\* C11: Parse accepts every input that ParseStrict accepts, and returns a
\* tree of the same shape: the same nesting of AND and OR, the same leaves in
\* the same order with the same exceptions, the License leaves differing from
\* the strict ones at most by the upgrade of a deprecated GPL-family
\* identifier.
C11_LaxRefinesStrict ==
  (pc # "start" /\ api = "ParseStrict" /\ result.err = NoErr) =>
    /\ Parse(input).err = NoErr
    /\ SameShape(result.expr, Parse(input).expr)

C11_Witness ==
  /\ pc = "returned"
  /\ api = "ParseStrict"
  /\ operands = <<"GPL-2.0", "mit+", "LicenseRef-custom">>
  /\ operators = <<"OR", "AND">>
  /\ result.expr = OrExpression(License("GPL-2.0", FALSE, ""),
                     AndExpression(License("MIT", TRUE, ""), LicenseRef("", "custom")))
  /\ Parse(input).expr = OrExpression(License("GPL-2.0-only", FALSE, ""),
                           AndExpression(License("MIT", TRUE, ""), LicenseRef("", "custom")))

(***************************************************************************)
(* Properties of normalizeLicenseWords, checked under SpecNormalize.       *)
(***************************************************************************)
\* the words ws joined by spaces normalize as one license
SpanOk(ws) == Normalize(Join(ws, " ")).err = "nil"

\* the ends e of the spans words[i..e] that normalize
SpanEnds(i) == {e \in i..Len(words) : SpanOk(SubSeq(words, i, e))}

\* the identifiers of the longest spans that normalize, taken from words[i]
\* on one after the other, or the error that names the first word at which
\* no span starts
RECURSIVE GreedyFrom(_, _)
GreedyFrom(i, ids) ==
  IF i > Len(words) THEN [out |-> Join(ids, " "), err |-> NoErr]
  ELSE IF SpanEnds(i) = {} THEN [out |-> "", err |-> Err("ErrInvalidLicenseID", words[i])]
  ELSE GreedyFrom(SetMax(SpanEnds(i)) + 1,
                  Append(ids, Normalize(Join(SubSeq(words, i, SetMax(SpanEnds(i))), " ")).id))

\* greedy span matching of the words of the state
GreedyMatch ==
  /\ emitted = GreedyFrom(1, << >>)
  /\ SpanOk(words) => emitted = [out |-> Normalize(phrase).id, err |-> NoErr]

\* C12 as stated: from each offset i normalizeLicenseWords consumes the
\* longest span of words that normalizes, so that a phrase whose full join
\* normalizes yields one identifier and the spans partition the words in
\* order, and it fails with ErrInvalidLicenseID naming w_i when no span that
\* starts at i normalizes.
C12_AsStated == pc = "emitted" => GreedyMatch

\* a single word that normalizeLicenseWords returns without normalizing it
Verbatim ==
  /\ Len(words) = 1
  /\ \/ ToUpper(words[1]) \in {"NONE", "NOASSERTION"}
     \/ HasPrefix(ToUpper(words[1]), "LICENSEREF-")
     \/ HasPrefix(ToUpper(words[1]), "DOCUMENTREF-")

\* C12, amended: a single word that is NONE, NOASSERTION or a license
\* reference is returned as it is, no span being tried; every other phrase
\* is matched greedily as stated.
C12_GreedySpans ==
  pc = "emitted" =>
    IF Verbatim THEN emitted.err = NoErr /\ ToUpper(emitted.out) = ToUpper(words[1])
    ELSE GreedyMatch

C12_Witness ==
  /\ pc = "emitted"
  /\ \/ words = <<"GPL", "v3">> /\ emitted = [out |-> "GPL-3.0-or-later", err |-> NoErr]
     \/ words = <<"PostgreSQL", "mit+">> /\ emitted = [out |-> "PostgreSQL MIT+", err |-> NoErr]
     \/ words = <<"PostgreSQL", "unknown">>
          /\ emitted = [out |-> "", err |-> Err("ErrInvalidLicenseID", "unknown")]

(***************************************************************************)
(* Properties of the errors of Parse and ParseStrict, checked under        *)
(* SpecTokens.                                                             *)
(***************************************************************************)
\* k closing parentheses
RECURSIVE Closers(_)
Closers(k) == IF k = 0 THEN "" ELSE " )" \o Closers(k - 1)

\* every word of the input is an identifier of the vocabulary, and one that
\* the pre-processor of Parse accepts where it stands
AllValid ==
  /\ \A k \in DOMAIN operands : operands[k] # "unknown"
  /\ api = "Parse" => normalizeExpressionString(TrimSpace(input)).err = NoErr

\* the input is an expression that lacks closing parentheses at its end
Unclosed == \E k \in 1..Len(operands) : Call(input \o Closers(k)).err = NoErr

\* the input ends in an operator whose right operand is missing
DanglingOperator ==
  /\ Len(operands) > 0
  /\ \/ /\ operands[Len(operands)] \in {"AND", "OR"}
        /\ \E k \in 0..Len(operands) : Call(input \o " mit" \o Closers(k)).err = NoErr
     \/ /\ operands[Len(operands)] = "WITH"
        /\ \E k \in 0..Len(operands) :
             Call(input \o " llvm-exception" \o Closers(k)).err = NoErr

\* the tokens that cannot continue a complete expression: a parenthesis, and
\* for ParseStrict a word (Parse joins adjacent words into one phrase)
Stoppers ==
  IF api = "Parse" THEN {"(", ")"} ELSE {"(", ")", "mit", "llvm-exception"}

\* token k + 1 follows a complete top-level expression
LeftoverAt(k) ==
  /\ Call(Join(SubSeq(operands, 1, k), " ")).err = NoErr
  /\ operands[k + 1] \in Stoppers

ErrorKinds ==
  {"ErrEmptyExpression", "ErrUnexpectedToken", "ErrUnbalancedParens",
   "ErrInvalidLicenseID", "ErrInvalidException", "ErrMissingOperand",
   "ErrInvalidSpecialValue"}

\* C14: every call of Parse and ParseStrict returns either an expression and
\* no error or no expression and an error; the error is one of the seven
\* declared kinds, and it is ErrEmptyExpression when the input is empty or
\* holds white space only.
C14_ResultOrError ==
  pc = "returned" =>
    /\ \/ result.err = NoErr /\ result.expr # Nil
       \/ result.expr = Nil /\ result.err.kind \in ErrorKinds
    /\ TrimSpace(input) = "" => result.err = Err("ErrEmptyExpression", "")

C14_Witness ==
  /\ pc = "returned"
  /\ api = "ParseStrict"
  /\ input = " \t"
  /\ result = [expr |-> Nil, err |-> Err("ErrEmptyExpression", "")]

(***************************************************************************)
(* Properties of Licenses, checked under Spec.                             *)
(***************************************************************************)
\* the License and LicenseRef leaves of a tree, left to right
NamedLeaves(e) == SelectSeq(Leaves(e), LAMBDA l : l.kind \in {"License", "LicenseRef"})

\* what a leaf contributes: the identifier of a License without its "+" and
\* its exception, the rendering of a LicenseRef
LeafName(l) ==
  IF l.kind = "License" THEN l.ID
  ELSE IF l.DocumentRef # "" THEN "DocumentRef-" \o l.DocumentRef \o ":LicenseRef-" \o l.LicenseRef
  ELSE "LicenseRef-" \o l.LicenseRef

\* C15: Licenses() returns the leaves of the tree from left to right without
\* removing duplicates: a License gives its ID, a LicenseRef its rendering, a
\* SpecialValue nothing, an AND or OR the list of its left side followed by
\* that of its right side; its length is the number of License and
\* LicenseRef leaves.
C15_LeafList ==
  (pc # "start" /\ result.err = NoErr) =>
    /\ Len(Licenses(result.expr)) = Len(NamedLeaves(result.expr))
    /\ \A k \in DOMAIN NamedLeaves(result.expr) :
         Licenses(result.expr)[k] = LeafName(NamedLeaves(result.expr)[k])
    /\ result.expr.kind \in {"AndExpression", "OrExpression"} =>
         Licenses(result.expr) = Licenses(result.expr.Left) \o Licenses(result.expr.Right)

C15_Witness ==
  /\ pc = "returned"
  /\ input = "mit+ OR NONE AND mit"
  /\ Licenses(result.expr) = <<"MIT", "MIT">>

(***************************************************************************)
(* Properties of license references, checked under SpecRef.                *)
(***************************************************************************)
\* the position of the reference among the operands
RefAt == IF operands[1] \in RefWords THEN 1 ELSE 2

\* the leaf the reference was parsed to
RefLeaf == Leaves(result.expr)[RefAt]

\* the rendering holds the reference as the caller wrote it
Reproduced ==
  rendered = Join(Interleave([operands EXCEPT ![3 - RefAt] = "MIT"], operators), " ")

\* C16 as stated: a word that starts with LicenseRef- or DocumentRef- in any
\* casing is accepted by Parse and ParseStrict, alone and as an operand of
\* AND and OR; the LicenseRef it gives has a non-empty license reference and
\* String() reproduces the word character for character.
C16_AsStated ==
  /\ pc # "start" =>
       /\ result.err = NoErr
       /\ RefLeaf.kind = "LicenseRef"
       /\ RefLeaf.LicenseRef # ""
  /\ pc = "rendered" => Reproduced

(***************************************************************************)
(* Properties of NormalizeExpression and HasCopyleft, checked under        *)
(* SpecExpression.                                                         *)
(***************************************************************************)
\* s without its parentheses
Unparen(s) == ReplaceAll(ReplaceAll(s, "(", ""), ")", "")

\* C17 as stated: NormalizeExpression changes the case of identifiers that
\* are valid already and adds the parentheses of precedence, nothing else:
\* its output is the input up to case and parentheses, and an informal name
\* such as 'Apache 2' is not normalized by it.
C17_AsStated ==
  (pc = "normalizedExpression" /\ expression.err = NoErr) =>
    ToUpper(Unparen(expression.out)) = ToUpper(Unparen(input))

\* C19 as stated: HasCopyleft(e) holds for every expression e that Parse
\* accepts and in which some identifier of Parse(e).Licenses() satisfies
\* IsCopyleft.
C19_AsStated ==
  (/\ pc = "copyleft"
   /\ Parse(input).err = NoErr
   /\ \E k \in DOMAIN Licenses(Parse(input).expr) : IsCopyleft(Licenses(Parse(input).expr)[k]))
  => copyleft

(***************************************************************************)
(* Properties of the tiers of Normalize, checked under SpecNormalize.      *)
(***************************************************************************)
\* what each tier of Normalize finds for the trimmed string s, in the order
\* exact match, exact match without the trailing "+", transforms,
\* transpositions, last resorts, transpositions with last resorts; "" where
\* the tier finds nothing
Tiers(s) ==
  << IF lookupLicense(s) # "" THEN upgradeGPL(lookupLicense(s)) ELSE "",
     IF HasSuffix(s, "+") /\ lookupLicense(TrimSuffix(s, "+")) # ""
     THEN upgradeGPL(lookupLicense(TrimSuffix(s, "+")) \o "+") ELSE "",
     tryTransforms(s),
     tryTranspositions(s),
     tryLastResorts(s),
     tryTranspositionsWithLastResorts(s) >>

\* the tiers that find something
Hits(s) == {k \in DOMAIN Tiers(s) : Tiers(s)[k] # ""}

\* the identifiers of the vocabulary of licenses
Vocabulary == Range(licenses) \cup Range(deprecated)

\* C20: Normalize consults its tiers in the fixed order exact match, exact
\* match without the trailing "+", transforms, transpositions, last resorts,
\* transpositions with last resorts, and returns what the first tier that
\* succeeds finds; an input that equals an identifier c of the vocabulary up to
\* case and surrounding white space gives upgradeGPL(c); an input that no
\* tier matches, and the empty or blank input, gives ErrInvalidLicense.
C20_TierOrder ==
  pc = "normalized" =>
    /\ normalized =
         IF TrimSpace(phrase) = "" \/ Hits(TrimSpace(phrase)) = {}
         THEN [id |-> "", err |-> "ErrInvalidLicense"]
         ELSE [id |-> Tiers(TrimSpace(phrase))[SetMin(Hits(TrimSpace(phrase)))], err |-> "nil"]
    /\ \A c \in Vocabulary :
         ToLower(TrimSpace(phrase)) = ToLower(c) =>
           normalized = [id |-> upgradeGPL(c), err |-> "nil"]

C20_Witness ==
  /\ pc = "normalized"
  /\ phrase = "GPL 2"
  /\ Hits(phrase) = {3, 4, 5, 6}
  /\ Tiers(phrase)[5] = "GPL-3.0-or-later"
  /\ normalized = [id |-> "GPL-2.0-only", err |-> "nil"]

(***************************************************************************)
(* Properties of concurrent calls, checked under SpecConcurrent.           *)
(***************************************************************************)
\* thread p is past the call of initMaps or initCategoryMap for Once o
Initialized(p, o) ==
  /\ thread[p].call # ""
  /\ OnceOf(thread[p].call) = o
  /\ thread[p].pc \in {"lookup", "returned"} \/ thread[p].left < Lookups(thread[p].call)

\* C18: under every interleaving of concurrent calls of Normalize, Parse,
\* ParseStrict, ValidLicense and LicenseCategory the body that builds the
\* vocabulary maps and the body that builds categoryMap run once each, no
\* lookup reads a map before its initialization has completed, no call
\* writes to a map after its initialization, and every call returns what it
\* returns when it runs alone.
C18_InitializedOnce ==
  /\ \A o \in Onces :
       /\ once[o].runs <= 1
       /\ \A p \in Threads :
            Initialized(p, o) =>
              /\ once[o].runs = 1
              /\ once[o].done
              /\ stage[o] = Writes(o)
  /\ ~raced
  /\ ~lateWrite
  /\ \A p \in Threads :
       thread[p].pc = "returned" =>
         thread[p].res = [fault |-> FALSE, value |-> SingleThreaded(thread[p].call)]

C18_Witness ==
  /\ thread[1].pc = "returned" /\ thread[1].call = "Parse"
  /\ thread[2].pc = "returned" /\ thread[2].call = "LicenseCategory"
  /\ thread[3].pc = "doSlow" /\ thread[3].call = "Normalize"
  /\ once["initOnce"].runs = 1
  /\ once["categoryOnce"].runs = 1
  /\ thread[2].res = [fault |-> FALSE, value |-> "Copyleft"]

(***************************************************************************)
(* Properties of the words after WITH, checked under SpecWith.             *)
(***************************************************************************)
\* the tokens at which normalizeTokens flushes its buffer
IsDelim(t) == ToUpper(t) \in {"AND", "OR", "WITH"} \/ t \in {"(", ")"}

\* the buffer after the tokens operands[i..j], none of them a delimiter: the
\* words, each "+" appended to the word before it
RECURSIVE Gathered(_, _, _)
Gathered(i, j, buf) ==
  IF i > j THEN buf
  ELSE Gathered(i + 1, j,
         IF operands[i] # "+" THEN Append(buf, operands[i])
         ELSE IF buf = << >> THEN buf
         ELSE [buf EXCEPT ![Len(buf)] = @ \o "+"])

\* the positions a buffer starts after: 0 for the start of the input, and
\* those of the delimiters
Starts == {0} \cup {k \in DOMAIN operands : IsDelim(operands[k])}

RunEnd(k) ==
  SetMin({j \in (k + 1)..(Len(operands) + 1) : j > Len(operands) \/ IsDelim(operands[j])})

\* the buffer that is flushed at the first delimiter after position k
Buffer(k) == Gathered(k + 1, RunEnd(k) - 1, << >>)

ExpectsException(k) == k > 0 /\ ToUpper(operands[k]) = "WITH"

\* the exception identifiers that equal, whatever the case, the words joined
\* by dashes or by spaces
ExceptionIDs(ws) ==
  {e \in Range(exceptions) :
     ToLower(e) \in {ToLower(Join(ws, "-")), ToLower(Join(ws, " "))}}

\* the flush of the buffer that starts after position k succeeds
FlushesWords(k, ws) ==
  \/ ws = << >>
  \/ IF ExpectsException(k) THEN ExceptionIDs(ws) # {}
     ELSE normalizeLicenseWords(ws).err = NoErr

Flushes(k) == FlushesWords(k, Buffer(k))

\* the error of the first flush that fails is ErrInvalidException with the
\* words joined by spaces, if that flush is one of words after WITH
ExceptionErrorOf(err) ==
  \A k \in Starts :
    (/\ ExpectsException(k)
     /\ Buffer(k) # << >>
     /\ ExceptionIDs(Buffer(k)) = {}
     /\ \A j \in Starts : j < k => Flushes(j))
    => err = Err("ErrInvalidException", Join(Buffer(k), " "))

\* the positions of the WITH tokens of toks, left to right
WithsOf(toks) ==
  SelectSeq([i \in DOMAIN toks |-> i], LAMBDA i : toks[i].isOp /\ toks[i].value = "WITH")

IsWordToken(toks, i) ==
  i \in DOMAIN toks /\ ~toks[i].isOp /\ ~toks[i].isParen /\ ~toks[i].isPlus

\* out, the tokens of the output, carries after its n-th WITH the canonical
\* spelling of the words after the n-th WITH of the input, at, and nothing
\* else of them
CanonicalAfter(at, out, to) ==
  /\ Len(at) = Len(to)
  /\ \A n \in DOMAIN at :
       IF Buffer(at[n]) = << >> THEN ~IsWordToken(out, to[n] + 1)
       ELSE /\ IsWordToken(out, to[n] + 1)
            /\ out[to[n] + 1].value \in ExceptionIDs(Buffer(at[n]))
            /\ ~IsWordToken(out, to[n] + 2)

CanonicalWritten(in, out) == CanonicalAfter(WithsOf(in), out, WithsOf(out))

\* C21: the words between WITH and the next operator, parenthesis or end of
\* input are looked up as an exception, joined by dashes and then by spaces,
\* whatever their case, and are never normalized as a license: the
\* pre-processor succeeds exactly if every buffer flushes, writes the canonical
\* exception identifier after each WITH, and otherwise it and Parse fail with
\* ErrInvalidException carrying the words joined by spaces; words after any
\* other operator or a parenthesis are license words again
C21_ExceptionLookup ==
  /\ (pc = "returned" /\ api = "Parse") => ExceptionErrorOf(result.err)
  /\ pc = "preprocessed" =>
       /\ ExceptionErrorOf(emitted.err)
       /\ emitted.err = NoErr <=> \A k \in Starts : Flushes(k)
       /\ emitted.err = NoErr =>
            CanonicalWritten(tokenizeForNormalization(input),
                             tokenizeForNormalization(emitted.out))

C21_Witness ==
  /\ pc = "preprocessed"
  /\ operands = <<"mit", "WITH", "LLVM", "exception", "AND", "mit">>
  /\ emitted = [out |-> "MIT WITH LLVM-exception AND MIT", err |-> NoErr]

(***************************************************************************)
(* Properties of license references inside a phrase, checked under         *)
(* SpecNormalize.                                                          *)
(***************************************************************************)
IsRefWord(w) ==
  HasPrefix(ToUpper(w), "LICENSEREF-") \/ HasPrefix(ToUpper(w), "DOCUMENTREF-")

\* C22: a word that starts with LicenseRef- or DocumentRef-, whatever the
\* case, passes through normalizeLicenseWords as it is wherever it stands:
\* when the call succeeds the word is one of the words of the output, also
\* when other words stand next to it in the phrase
C22_AsStated ==
  (pc = "emitted" /\ emitted.err = NoErr) =>
    \A i \in DOMAIN words :
      IsRefWord(words[i]) => \E k \in DOMAIN Fields(emitted.out) : Fields(emitted.out)[k] = words[i]

(***************************************************************************)
(* Properties of the "+" atoms, checked under SpecTokens.                  *)
(***************************************************************************)
\* the token at position i is a "+" that follows a word, other "+" atoms at
\* most standing between the two
PlusAfterWord(i) ==
  \E j \in 1..(i - 1) :
    /\ operands[j] # "+" /\ ~IsDelim(operands[j])
    /\ \A m \in (j + 1)..(i - 1) : operands[m] = "+"

\* C23: no "+" is discarded: Parse accepts an input only if each of its "+"
\* atoms has a license word before it to attach to
C23_AsStated ==
  (pc = "returned" /\ api = "Parse" /\ result.err = NoErr) =>
    \A i \in DOMAIN operands : operands[i] = "+" => PlusAfterWord(i)

(***************************************************************************)
(* Properties of the tokenization, checked under SpecLexer.                *)
(***************************************************************************)
IsAtomCh(c) == c \in {"(", ")", "+"}

\* the i-th character of the text is part of a word
InWord(i) ==
  /\ i \in 1..Len(source)
  /\ ~IsSpace(Ch(source, i))
  /\ ~IsAtomCh(Ch(source, i))

\* where the tokens of the text start: at every parenthesis and "+", and at
\* the first character of every maximal run of other characters that are no
\* white space
TokenStarts ==
  {i \in 1..Len(source) : IsAtomCh(Ch(source, i)) \/ (InWord(i) /\ ~InWord(i - 1))}

\* the last character of the run that starts at i
RunLast(i) == SetMax({j \in i..Len(source) : \A k \in i..j : InWord(k)})

\* the k-th smallest element of S
Kth(S, k) == CHOOSE x \in S : Cardinality({y \in S : y < x}) = k - 1

\* the token a word is
WordKind(w) ==
  IF ToUpper(w) = "AND" THEN Token("tokenAnd", "AND")
  ELSE IF ToUpper(w) = "OR" THEN Token("tokenOr", "OR")
  ELSE IF ToUpper(w) = "WITH" THEN Token("tokenWith", "WITH")
  ELSE IF HasPrefix(ToUpper(w), "LICENSEREF-") THEN Token("tokenLicenseRef", w)
  ELSE IF HasPrefix(ToUpper(w), "DOCUMENTREF-") THEN Token("tokenDocumentRef", w)
  ELSE Token("tokenLicense", w)

\* the token that starts at i
ExpectedToken(i) ==
  IF Ch(source, i) = "(" THEN Token("tokenOpenParen", "(")
  ELSE IF Ch(source, i) = ")" THEN Token("tokenCloseParen", ")")
  ELSE IF Ch(source, i) = "+" THEN Token("tokenPlus", "+")
  ELSE WordKind(SubSeq(source, i, RunLast(i)))

\* the token of tokenizeForNormalization that corresponds to the token t of
\* the lexer: words, license references included, keep their spelling
ForNormalization(t) ==
  [value |-> t.value,
   isOp |-> t.typ \in {"tokenAnd", "tokenOr", "tokenWith"},
   isParen |-> t.typ \in {"tokenOpenParen", "tokenCloseParen"},
   isPlus |-> t.typ = "tokenPlus"]

\* C24: lexer.next never returns an error; the tokens it has returned so far
\* are, in the order of the text, the tokens that start at the first
\* positions of TokenStarts, a parenthesis or "+" being a token of its own
\* and every other maximal run of characters that are no white space one
\* token, a keyword, a reference or a license word; at the end of the text
\* none is missing, and tokenizeForNormalization splits the text at the same
\* places
C24_Tokenization ==
  /\ pc # "failed"
  /\ pc \in {"lexing", "lexed"} =>
       /\ Len(tokens) <= Cardinality(TokenStarts)
       /\ \A k \in DOMAIN tokens : tokens[k] = ExpectedToken(Kth(TokenStarts, k))
  /\ pc = "lexed" =>
       /\ Len(tokens) = Cardinality(TokenStarts)
       /\ tokenizeForNormalization(source) = [k \in DOMAIN tokens |-> ForNormalization(tokens[k])]

C24_Witness ==
  /\ pc = "lexed"
  /\ source = "With(LicenseRef-a"
  /\ tokens = <<Token("tokenWith", "WITH"), Token("tokenOpenParen", "("),
                Token("tokenLicenseRef", "LicenseRef-a")>>

(***************************************************************************)
(* Properties of the loops and the recursion, checked under                *)
(* SpecTermination.                                                        *)
(***************************************************************************)
\* the tokens the parser has consumed: those the lexer has returned, less
\* the current one
Consumed == Len(tokens) - (IF current.typ \in {"", "tokenEOF"} THEN 0 ELSE 1)

Opens(toks) == Len(SelectSeq(toks, LAMBDA t : t.typ = "tokenOpenParen"))

\* the "(" tokens of the text that have been consumed
OpensConsumed == Opens(tokens) - (IF current.typ = "tokenOpenParen" THEN 1 ELSE 0)

\* the calls of fn in progress
Depth(fn) == Len(SelectSeq(stack, LAMBDA f : f.fn = fn))

\* the calls of parseAtom in progress that wait for the expression in
\* parentheses
Nested == Len(SelectSeq(stack, LAMBDA f : f.fn = "parseAtom" /\ f.at = "inner"))

\* the cursor and the offset stay within the text and the words, and the
\* depth of the recursion within the number of "(" read
Bounded ==
  /\ cursor \in 1..(Len(source) + 1)
  /\ offset \in 1..(Len(words) + 1)
  /\ pc = "parsing" =>
       /\ Nested <= OpensConsumed
       /\ \A fn \in {"parseExpression", "parseAnd", "parseWith", "parseAtom"} :
            Depth(fn) <= 1 + OpensConsumed

\* lexer.next returns tokenEOF or moves the cursor forward; the cursor never
\* moves back
LexerAdvances ==
  /\ pc \in {"lexing", "parsing"} => cursor' >= cursor
  /\ (pc = "lexing" /\ pc' = "lexing") => cursor' > cursor

\* an iteration of the loops of parseExpression and parseAnd and a call of
\* parseExpression by parseAtom consume a token
ParserAdvances ==
  (/\ pc = "parsing" /\ pc' = "parsing"
   /\ Len(stack') > Len(stack)
   /\ \/ Top.at = "loop"
      \/ Top.fn = "parseAtom")
  => Consumed' > Consumed

\* an outer iteration of normalizeLicenseWords moves the offset forward
SpansAdvance == (pc = "spans" /\ pc' = "spans") => offset' > offset

\* C25: Parse and ParseStrict terminate: lexer.next returns tokenEOF or
\* moves the cursor forward, and the cursor stays within the text; every
\* iteration of a parser loop and every call of parseExpression by parseAtom
\* consumes a token, the depth of the recursion being at most the number of
\* "(" read; every outer iteration of normalizeLicenseWords moves the offset
\* forward or the call returns; and every call returns
C25_Terminates ==
  /\ []Bounded
  /\ [][LexerAdvances /\ ParserAdvances /\ SpansAdvance]_vars
  /\ <>(pc = "done")

\* the statement-by-statement parser and loop return what Parse,
\* ParseStrict and normalizeLicenseWords return
StepsAgree ==
  /\ pc = "done" => result = IF api = "Parse" THEN Parse(input) ELSE ParseStrict(input)
  /\ (pc \in {"spanned", "parsing", "done"} /\ words # << >>) =>
       emitted = normalizeLicenseWords(words)

C25_Witness ==
  /\ pc = "parsing"
  /\ api = "ParseStrict"
  /\ input = "(mit OR (mit AND mit))"
  /\ Nested = 2
  /\ current = Token("tokenAnd", "AND")

(***************************************************************************)
(* Properties of the operators and parentheses in the output of the        *)
(* pre-processor, checked under SpecPreprocess.                            *)
(***************************************************************************)
\* the positions of the operators and parentheses among the tokens toks of
\* tokenizeForNormalization, left to right
StructuralIn(toks) == SelectSeq([i \in DOMAIN toks |-> i], LAMBDA i : toks[i].isOp \/ toks[i].isParen)

IsStructural(tok) ==
  tok.typ \in {"tokenAnd", "tokenOr", "tokenWith", "tokenOpenParen", "tokenCloseParen"}

\* the same among the tokens toks that lexer.next returns
StructuralOut(toks) == SelectSeq([i \in DOMAIN toks |-> i], LAMBDA i : IsStructural(toks[i]))

\* the tokens of toks between its k-th and its (k+1)-th position of at,
\* k = 0 standing for the start
Gap(toks, at, k) ==
  SubSeq(toks, (IF k = 0 THEN 0 ELSE at[k]) + 1,
               (IF k = Len(at) THEN Len(toks) + 1 ELSE at[k + 1]) - 1)

\* licenseWords after the tokens toks, none an operator or a parenthesis
RECURSIVE BufferOf(_, _, _)
BufferOf(toks, i, buf) ==
  IF i > Len(toks) THEN buf
  ELSE BufferOf(toks, i + 1,
         IF ~toks[i].isPlus THEN Append(buf, toks[i].value)
         ELSE IF buf = << >> THEN buf
         ELSE [buf EXCEPT ![Len(buf)] = @ \o "+"])

\* what flushException writes for the words ws
ExceptionWritten(ws) ==
  IF lookupException(Join(ws, "-")) # "" THEN lookupException(Join(ws, "-"))
  ELSE lookupException(Join(ws, " "))

\* what the flush of the words ws writes, after WITH or elsewhere
Written(ws, afterWith) ==
  IF ws = << >> THEN ""
  ELSE IF afterWith THEN ExceptionWritten(ws)
  ELSE normalizeLicenseWords(ws).out

\* the output tokens out carry the operators and parentheses of the input
\* tokens in, and between them what the flush of each buffer wrote, once
SameStructure(in, at, out, to) ==
  /\ Len(at) = Len(to)
  /\ \A k \in DOMAIN at : out[to[k]].value = in[at[k]].value
  /\ \A k \in 0..Len(at) :
       Gap(out, to, k) =
         returnedFrom(Written(BufferOf(Gap(in, at, k), 1, << >>),
                              k > 0 /\ in[at[k]].value = "WITH"), 1)

StructureKept(in, out) == SameStructure(in, StructuralIn(in), out, StructuralOut(out))

\* C26: when the pre-processor succeeds, the tokens of its output carry the
\* AND, OR, WITH, "(" and ")" of its input, as many and in the same order,
\* and between two of them exactly what the flush of the words gathered
\* there wrote, once, before the operator or parenthesis that flushed them
C26_StructureKept ==
  (pc = "preprocessed" /\ emitted.err = NoErr) =>
    StructureKept(tokenizeForNormalization(TrimSpace(input)), returnedFrom(emitted.out, 1))

C26_Witness ==
  /\ pc = "preprocessed"
  /\ input = "(Apache 2 with llvm-exception"
  /\ emitted = [out |-> "(Apache-2.0 WITH LLVM-exception", err |-> NoErr]

(***************************************************************************)
(* Properties of the last-resort tier, checked under SpecLastResorts.      *)
(***************************************************************************)
\* the patterns keys stand longest first, those of equal length in
\* ascending order
LongestFirst(keys) ==
  \A r \in DOMAIN keys : r < Len(keys) =>
    \/ Len(keys[r]) > Len(keys[r + 1])
    \/ Len(keys[r]) = Len(keys[r + 1]) /\ StrLess(keys[r], keys[r + 1])

\* the entries of lastResortData whose substring occurs in upper
Matching(upper) == {e \in Range(lastResortData) : Contains(upper, e.substring)}

\* e stands before every other entry of hits in the order of the sort
Foremost(e, hits) ==
  \A f \in hits :
    \/ f = e
    \/ Len(f.substring) < Len(e.substring)
    \/ Len(f.substring) = Len(e.substring) /\ StrLess(e.substring, f.substring)

LongestOf(hits, id) ==
  IF hits = {} THEN id = ""
  ELSE \E e \in hits : Foremost(e, hits) /\ id = upgradeGPL(e.license)

\* C27: after init the tables lastResorts and transpositions hold the
\* entries of their data longest pattern first, patterns of equal length in
\* ascending order, and tryLastResorts returns upgradeGPL of the license of
\* the longest entry whose substring occurs in the upper-case phrase, the
\* empty string if none does
C27_LongestLastResort ==
  /\ LongestFirst([r \in DOMAIN lastResorts |-> lastResorts[r].substring])
  /\ LongestFirst([r \in DOMAIN transpositions |-> transpositions[r].from])
  /\ Range(lastResorts) = Range(lastResortData)
  /\ Range(transpositions) = Range(transpositionData)
  /\ pc = "lastResort" => LongestOf(Matching(ToUpper(phrase)), upgraded)

C27_Witness ==
  /\ pc = "lastResort"
  /\ phrase = "gnu Lesser lgpl2.1+"
  /\ upgraded = "LGPL-2.1-or-later"

(***************************************************************************)
(* Properties of ErrUnbalancedParens, checked under SpecTokens.            *)
(***************************************************************************)
\* the number of "(" less the number of ")" among the first n tokens
RECURSIVE OpenAfter(_)
OpenAfter(n) ==
  IF n = 0 THEN 0
  ELSE OpenAfter(n - 1) + (IF operands[n] = "(" THEN 1 ELSE IF operands[n] = ")" THEN -1 ELSE 0)

\* every "(" has its ")" and every ")" its "("
Balanced == OpenAfter(Len(operands)) = 0 /\ \A n \in DOMAIN operands : OpenAfter(n) >= 0

\* C28: ErrUnbalancedParens is returned only for inputs whose parentheses
\* are not balanced: neither Parse nor ParseStrict returns it for an input in
\* which every parenthesis has its match
C28_AsStated ==
  (pc = "returned" /\ Balanced) => result.err.kind # "ErrUnbalancedParens"

(***************************************************************************)
(* Properties of the exceptions in the tree, checked under Spec.           *)
(***************************************************************************)
\* the number of WITH operators among the tokens toks
WithCount(toks) == Len(SelectSeq(toks, LAMBDA t : t.isOp /\ t.value = "WITH"))

\* the License leaves of a tree that carry an exception
Excepted(e) == SelectSeq(Leaves(e), LAMBDA l : l.kind = "License" /\ l.Exception # "")

\* C29: an exception attached to a License is never replaced or dropped:
\* the tree of an accepted input has as many License leaves with an
\* exception as the input has WITH operators
C29_AsStated ==
  (pc = "returned" /\ result.err = NoErr) =>
    Len(Excepted(result.expr)) = WithCount(tokenizeForNormalization(input))

(***************************************************************************)
(* Properties of the phrases and the leaves, checked under SpecPhrases.    *)
(***************************************************************************)
\* the buffers of license words: those that hold a word and do not follow
\* WITH, each named by the position it starts after
Phrases == {k \in Starts : ~ExpectsException(k) /\ Buffer(k) # << >>}

\* normalizeLicenseWords returns two or more identifiers for the phrase
SplitsWords(ws) == normalizeLicenseWords(ws).err = NoErr /\ Contains(normalizeLicenseWords(ws).out, " ")

Splits(k) == SplitsWords(Buffer(k))

\* the flush of phrase k is reached and normalizeLicenseWords splits it
SplitReached(k) == Splits(k) /\ \A j \in Starts : j < k => Flushes(j)

====
